---- MODULE Spec2Model ----
(***************************************************************************)
(* A model of the ipmigo IPMI v2.0 (RMCP+) client.                         *)
(*                                                                         *)
(* Spec      the session state machine of sessionV2_0: Open, Close,        *)
(*           Execute and Ping against a peer that may answer every         *)
(*           exchange with any datagram, a network error or a timeout.     *)
(*           One action is one blocking operation (a dial or one           *)
(*           send/receive attempt) together with all the code that runs    *)
(*           up to the next blocking operation.                            *)
(* SpecArgs  NewClient (validate, setDefault) applied to Arguments drawn   *)
(*           from bounded sets.                                            *)
(* SpecSDR   SDRGetRecordsRepo against a BMC that holds a small SDR        *)
(*           repository and may answer one Get SDR with an error code.     *)
(*           One action is one Execute with the code up to the next one.   *)
(* SpecSEL   SELGetEntries against a BMC that holds a small event log.     *)
(* SpecSeq   the session sequence number and rqSeq of the requests         *)
(*           execute builds, from counters close to their wrap-around.     *)
(* SpecOpen  the first Open or Execute on a new client, with the outcome   *)
(*           every attempt met recorded in rx.                             *)
(* SpecMsg   one IPMI message at the level of its bytes: the request as    *)
(*           marshalled and protected, the response as unmarshalled.       *)
(* SpecSDRLive  SDRGetRecordsRepo as SpecSDR, from its call, with every    *)
(*           Execute returning (the deadline sendMessage sets).            *)
(* SpecWire  the attempts of execute's retry(): the session sequence       *)
(*           number each one takes and whether it reaches the wire.        *)
(* SpecLate  consecutive calls on one socket whose replies may arrive      *)
(*           after the call they answer has timed out.                     *)
(* SpecCode  CompletionCode.String applied to every value of a byte.       *)
(* SpecCrypt encryptPayload, decryptPayload, makeTrailer and               *)
(*           validateTrailer on byte strings.                              *)
(* SpecRecv  one received datagram through sendMessage, unmarshalMessage   *)
(*           and the checks of SendPacket.                                 *)
(***************************************************************************)
EXTENDS Integers, Sequences, FiniteSets, TLC

----------------------------------------------------------------------------
(* Bounds of the exploration *)

\* largest Arguments.Retries explored
MaxRetries == 1
\* sockets that may be dialed in one behaviour
MaxDials == 2
\* a new API call starts only while rqSeq is below this
MaxRqSeq == 2

----------------------------------------------------------------------------
(* Program constants *)

consoleID == 1229999433
V1_5 == 1
V2_0 == 2
PrivilegeCallback == 1
PrivilegeUser == 2
PrivilegeOperator == 3
PrivilegeAdministrator == 4
CompletionOK == 0
CompletionUnspecifiedError == 255
\* iota is 2 on the line of CompletionNodeBusy, so the list starts at 0xc2
CompletionNodeBusy == 194
CompletionInvalidCommand == 195
CompletionTimeout == 197
CompletionReservationCancelled == 199
CompletionRequestDataFieldExceedEd == 202
CompletionInsufficientPrivilege == 214
rakpStatusNoErrors == 0
rakpStatusInsufficientResource == 1

\* a nil net.Conn
NoConn == 0

\* uint32 session sequence numbers, as <<high 16 bits, low 16 bits>>
Uint32(hi, lo) == <<hi, lo>>

Zero32 == Uint32(0, 0)

MaxUint32 == Uint32(65535, 65535)

\* x + 1 in uint32 arithmetic
Inc32(x) == IF x[2] = 65535 THEN Uint32((x[1] + 1) % 65536, 0) ELSE Uint32(x[1], x[2] + 1)

----------------------------------------------------------------------------
(* Cipher suites (Table 22-20): <<Auth, Integrity, Crypt>> of suite id *)

authRakpNone == 0
authRakpHmacSHA1 == 1
integrityNone == 0
integrityHmacSHA1_96 == 1
cryptNone == 0
cryptAesCBC_128 == 1

cipherSuiteIDs == [ cid \in 0..3 |->
    CASE cid = 0 -> [Auth |-> authRakpNone, Integrity |-> integrityNone, Crypt |-> cryptNone]
      [] cid = 1 -> [Auth |-> authRakpHmacSHA1, Integrity |-> integrityNone, Crypt |-> cryptNone]
      [] cid = 2 -> [Auth |-> authRakpHmacSHA1, Integrity |-> integrityHmacSHA1_96, Crypt |-> cryptNone]
      [] cid = 3 -> [Auth |-> authRakpHmacSHA1, Integrity |-> integrityHmacSHA1_96, Crypt |-> cryptAesCBC_128] ]

requiredAuthentication(cid) == cipherSuiteIDs[cid].Auth = authRakpHmacSHA1

requiredIntegrity(cid) == cipherSuiteIDs[cid].Integrity = integrityHmacSHA1_96

requiredConfidentiality(cid) == cipherSuiteIDs[cid].Crypt = cryptAesCBC_128

----------------------------------------------------------------------------
(* Errors, commands, keys *)

Err(t, to, m, c, n, cs) ==
    [type |-> t, timeout |-> to, msg |-> m, cc |-> c, cmd |-> n, cause |-> cs]

\* a nil error
NoErr == Err("nil", FALSE, "", 0, "", <<>>)

\* a net.Error; timeout is what its Timeout() reports
NetError(to) == Err("net", to, "", 0, "", <<>>)

MessageError(m) == Err("MessageError", FALSE, m, 0, "", <<>>)

MessageErrorCause(m, e) == Err("MessageError", FALSE, m, 0, "", <<e>>)

CommandError(c, n) == Err("CommandError", FALSE, "", c, n, <<>>)

\* the result slot of an API call that has not returned yet
Pending == Err("pending", FALSE, "", 0, "", <<>>)

Cmd(n, a) == [name |-> n, arg |-> a]

NoCmd == Cmd("none", 0)

newChannelAuthCapCommand(v) == Cmd("GetChannelAuthCap", IF v = V2_0 THEN 142 ELSE 14)

newSetSessionPrivilegeCommand(l) == Cmd("SetSessionPrivilege", l)

newCloseSessionCommand(sid) == Cmd("CloseSession", sid)

\* the privilege levels a client is created with
PrivilegeLevels == {PrivilegeUser, PrivilegeAdministrator}

\* the commands a caller hands to Execute
UserCommands == { Cmd("GetDeviceID", 0), Cmd("GetPOHCounter", 0) }

UserCommandNames == { c.name : c \in UserCommands }

\* minimal response length each command's Unmarshal accepts
cmdMinLength(n) ==
    CASE n = "GetChannelAuthCap" -> 8
      [] n = "SetSessionPrivilege" -> 1
      [] n = "CloseSession" -> 0
      [] n = "GetDeviceID" -> 11
      [] n = "GetPOHCounter" -> 5
      [] OTHER -> 0

Key(a, l, m, c) == [alg |-> a, label |-> l, rm |-> m, rc |-> c]

\* a nil []byte
NilKey == Key("nil", 0, 0, 0)

\* the zero value of rakpMessage3.K1 / K2 (never generated without authentication)
ZeroKey == Key("zero", 0, 0, 0)

----------------------------------------------------------------------------
VARIABLES
    args,       \* the validated Arguments of the client
    conn,       \* sessionV2_0.conn: NoConn or the number of the dialed socket
    id,         \* sessionV2_0.id
    sequence,   \* sessionV2_0.sequence
    rqSeq,      \* sessionV2_0.rqSeq
    k1,         \* sessionV2_0.k1
    k2,         \* sessionV2_0.k2
    socks,      \* the sockets that are open at the operating system
    dials,      \* number of sockets dialed so far
    stack,      \* the frames of the session methods that are running
    pc,         \* the blocking operation the running method performs next
    try,        \* the loop index i of the running retry()
    cmd,        \* the command of the running execute()
    hs,         \* locals of openSession (cac, osr, r1, r2, r3, s1)
    api,        \* the API call in progress (or the last one made)
    reopen,     \* the call in progress started on a client Close() had closed
    ret,        \* what the last API call returned (Pending while it runs)
    res,        \* response fields of the caller's command
    last,       \* the error of the latest attempt of the running retry()
    rsm,        \* execute(): <<rsm.CompletionCode>> of the response, <<>> without one
    txn,        \* packets written to the socket by the running retry()
    lastTx,     \* the latest packet written to the socket in this API call
    sent,       \* the kinds of packet written to the socket in this API call
    rx          \* what the latest attempt met, in the behaviours that record it

sessionVars ==
    << args, conn, id, sequence, rqSeq, k1, k2, socks, dials, stack, pc,
       try, cmd, hs, api, reopen, ret, res, last, rsm, txn, lastTx, sent, rx >>

VARIABLES
    arguments,  \* NewClient: the Arguments the caller passes
    client,     \* NewClient: <<>> for a nil *Client, else <<the client's args>>
    newErr,     \* NewClient: the error returned
    newPc       \* NewClient: "call" before the call, "done" after it

argVars == << arguments, client, newErr, newPc >>

VARIABLES
    repo,            \* BMC: the records of the SDR repository
    bmcReservation,  \* BMC: the reservation id handed out last
    getSDRs,         \* BMC: number of Get SDR commands answered
    faultAt,         \* BMC: the Get SDR answered with faultCode (0: none)
    faultCode,       \* BMC: the completion code of that answer
    bmcMaxRead,      \* BMC: most bytes one Get SDR may ask for
    bmcMaxData,      \* BMC: most record bytes one Get SDR response carries
    bmcVersion,      \* BMC: SDR version of Get SDR Repository Info
    sdrReadingBytes, \* Client.sdrReadingBytes
    filter,          \* argument of SDRGetRecordsRepo
    sensors,         \* SDRGetRecordsRepo: sensors; at "done" the slice returned
    reservation,     \* SDRGetRecordsRepo: reservation
    header,          \* SDRGetRecordsRepo: header (<<>> for nil, else <<sdrHeader>>)
    nextID,          \* SDRGetRecordsRepo: nextID
    recordID,        \* SDRGetRecordsRepo: recordID
    n,               \* sdrGetRecord: n
    buf,             \* sdrGetRecord: buf
    spc,             \* the Execute SDRGetRecordsRepo performs next
    serr,            \* the error SDRGetRecordsRepo returned
    lastReq,         \* the latest Get SDR request written
    lastCc           \* the completion code of its response

sdrVars ==
    << repo, bmcReservation, getSDRs, faultAt, faultCode, bmcMaxRead, bmcMaxData, bmcVersion,
       sdrReadingBytes, filter, sensors, reservation, header, nextID, recordID,
       n, buf, spc, serr, lastReq, lastCc >>

\* SELGetEntries: its arguments and locals, and the BMC's log, as one record
VARIABLE sel

\* one IPMI message on its way out and the response that comes back, as one
\* record
VARIABLE msg

vars == << sessionVars, argVars, sdrVars, sel, msg >>

----------------------------------------------------------------------------
(* The session object and the call stack as one record, so that the methods *)
(* that call each other can be written as operators on it                   *)

Cur ==
    [ conn |-> conn, id |-> id, sequence |-> sequence, rqSeq |-> rqSeq,
      k1 |-> k1, k2 |-> k2, socks |-> socks, stack |-> stack, pc |-> pc,
      try |-> try, cmd |-> cmd, ret |-> ret, res |-> res ]

Install(m) ==
    /\ conn' = m.conn
    /\ id' = m.id
    /\ sequence' = m.sequence
    /\ rqSeq' = m.rqSeq
    /\ k1' = m.k1
    /\ k2' = m.k2
    /\ socks' = m.socks
    /\ stack' = m.stack
    /\ pc' = m.pc
    /\ try' = m.try
    /\ cmd' = m.cmd
    /\ ret' = m.ret
    /\ res' = m.res
    /\ reopen' = IF m.pc = "idle" THEN FALSE
                 ELSE IF pc = "idle" THEN api = "Close" /\ ret = NoErr
                 ELSE reopen
    /\ UNCHANGED <<argVars, sdrVars, sel, msg>>

Frame(f, c, e) == [fn |-> f, cmd |-> c, err |-> e]

Push(m, f) == [m EXCEPT !.stack = Append(@, f)]

Pop(m) == [m EXCEPT !.stack = SubSeq(@, 1, Len(@) - 1)]

Top(m) == m.stack[Len(m.stack)]

ActiveSession(m) == m.id > 0

\* a NextSequence() that counts whether or not the session is active
NextSequenceAlways(m) ==
    IF m.sequence = MaxUint32 THEN Uint32(0, 1) ELSE Inc32(m.sequence)

\* a NextSequence() that returns the counter as it is
NextSequenceHeld(m) == m.sequence

\* a NextSequence() that increments without the wrap-around case
NextSequencePlain(m) ==
    IF ActiveSession(m) THEN Inc32(m.sequence) ELSE m.sequence

\* the sequence number NextSequence() leaves in the session and returns
NextSequence(m) ==
    IF ActiveSession(m)
    THEN IF m.sequence = MaxUint32 THEN Uint32(0, 1) ELSE Inc32(m.sequence)
    ELSE m.sequence

\* a NextRqSeq() that resets one request late
NextRqSeqLate(q) == IF q + 1 > 64 THEN 0 ELSE q + 1

\* the value NextRqSeq() leaves in rqSeq (it returns the old value << 2)
NextRqSeq(q) == IF q + 1 >= 64 THEN 0 ELSE q + 1

\* a retry() that goes on after every network error
retryOnAnyNetError(retries, i, err) ==
    /\ err.type = "net"
    /\ i + 1 <= retries

\* retry(): after attempt number i (from 0) ended with err, is f called again?
retryContinues(retries, i, err) ==
    /\ err.type = "net"
    /\ err.timeout
    /\ i + 1 <= retries

RECURSIVE Return(_, _)

\* an Open() without the check of s.conn
OpenAlwaysDials(m) ==
    [Push(m, Frame("Open", NoCmd, NoErr)) EXCEPT !.pc = "dial", !.try = 0]

\* Open(), up to its first blocking operation
Open(m) ==
    IF m.conn # NoConn
    THEN Return(m, NoErr)
    ELSE [Push(m, Frame("Open", NoCmd, NoErr)) EXCEPT !.pc = "dial", !.try = 0]

\* Execute(cmd), up to its first blocking operation
Execute(m, c) == Open(Push(m, Frame("Execute", c, NoErr)))

\* the second half of Close(): release the socket
CloseConn(m) ==
    IF m.conn # NoConn
    THEN Return([m EXCEPT !.socks = @ \ {m.conn}, !.conn = NoConn], NoErr)
    ELSE Return(m, NoErr)

\* Close(), up to its first blocking operation
Close(m) ==
    IF ActiveSession(m)
    THEN Execute(Push(m, Frame("Close", NoCmd, NoErr)), newCloseSessionCommand(m.id))
    ELSE CloseConn(m)

\* a Close() that releases the socket when Close Session has failed
CloseResumeReleasing(m, rv) ==
    IF rv # NoErr
    THEN CloseConn(m)
    ELSE CloseConn([m EXCEPT !.id = 0, !.sequence = Zero32, !.rqSeq = 0,
                             !.k1 = NilKey, !.k2 = NilKey])

\* Close() once its Execute(Close Session) has returned rv
CloseResume(m, rv) ==
    IF rv # NoErr
    THEN Return(m, rv)
    ELSE CloseConn([m EXCEPT !.id = 0, !.sequence = Zero32, !.rqSeq = 0,
                             !.k1 = NilKey, !.k2 = NilKey])

\* an Execute() that goes on to execute(cmd) whatever Open() returned
ExecuteIgnoringOpenError(m, f, rv) ==
    [Push(m, f) EXCEPT !.pc = "exec", !.try = 0, !.cmd = f.cmd]

\* Execute() once its Open() has returned rv
ExecuteResume(m, f, rv) ==
    IF rv # NoErr
    THEN Return(m, rv)
    ELSE [Push(m, f) EXCEPT !.pc = "exec", !.try = 0, !.cmd = f.cmd]

\* a callee returns rv to the method whose frame is on top of the stack;
\* with no frame left the API call itself returns rv to the caller
Return(m, rv) ==
    IF m.stack = <<>>
    THEN [m EXCEPT !.pc = "idle", !.ret = rv, !.cmd = NoCmd, !.try = 0]
    ELSE LET f == Top(m)
         IN CASE f.fn = "Execute" -> ExecuteResume(Pop(m), f, rv)
              [] f.fn = "Close" -> CloseResume(Pop(m), rv)
              [] f.fn = "Open" -> Return(Pop(m), f.err)

\* Open() when openSession() has returned err: the deferred Close() runs
\* and then Open() returns err
OpenFail(m, err) ==
    Close([Pop(m) EXCEPT !.stack = Append(@, Frame("Open", NoCmd, err))])

\* Open() when openSession() has returned nil
OpenDone(m) == Return(Pop(m), NoErr)

----------------------------------------------------------------------------
(* What one attempt may meet: a network error, or a datagram.  A datagram *)
(* is described by the fields the client looks at.                         *)

\* session ids a peer may put in a response header
SessionIDs == {consoleID, 0}
\* managed system session ids a peer may assign
ManagedIDs == {0, 1, 2}
\* values of the console random number Rm
ConsoleRands == {1}
\* values of the managed system random number Rc
ManagedRands == {1, 2}
\* completion codes a peer may answer
CompletionCodes == {CompletionOK, CompletionInvalidCommand, CompletionInsufficientPrivilege}
\* first response data byte: AuthTypeSupport with and without the RMCP+ bit
DataValues == {128, 4}

\* the datagram of a peer that follows the protocol with suite 0; the sets
\* below vary it field by field, the fields the client checks first varying
\* over well-formed contents only (a check that fails hides the later fields)
Datagram ==
    [ kind |-> "pkt", timeout |-> FALSE, sent |-> TRUE, sup |-> TRUE,
      ptype |-> "IPMI", sid |-> consoleID, auth |-> "ok", enc |-> "ok",
      wf |-> TRUE, cc |-> CompletionOK, dlen |-> 16, val |-> 128,
      status |-> rakpStatusNoErrors, cid |-> consoleID, mid |-> 1,
      suite |-> 0, rc |-> 1, code |-> TRUE ]

\* SetDeadline, Write or Read fails; sent: the request was written before.
\* A failure before the write is no timeout.
NetOutcomes ==
    { [Datagram EXCEPT !.kind = "net", !.timeout = t] : t \in BOOLEAN }
    \cup { [Datagram EXCEPT !.kind = "net", !.sent = FALSE] }

\* a datagram unmarshalMessage rejects
MalformedOutcomes == { [Datagram EXCEPT !.kind = "malformed"] }

PongOutcomes == { [Datagram EXCEPT !.kind = "pong", !.sup = b] : b \in BOOLEAN }

\* the session layer of a packet: session id, authenticated flag with a valid
\* ("ok") or invalid ("bad") trailer, encrypted flag with a payload that
\* decrypts ("ok") or has no valid length ("bad")
Envelopes ==
    { [Datagram EXCEPT !.sid = i, !.auth = a, !.enc = e] :
        i \in SessionIDs, a \in {"none", "ok", "bad"}, e \in {"none", "ok", "bad"} }

\* the envelopes that pass the checks of a session with and without
\* integrity and confidentiality
GoodEnvelopes ==
    { [Datagram EXCEPT !.auth = a, !.enc = a] : a \in {"none", "ok"} }

\* IPMI responses: wf is false when the size or a checksum is wrong,
\* dlen is the length of the response data
IPMIOutcomes ==
    Envelopes
    \cup { [d EXCEPT !.val = v] : d \in GoodEnvelopes, v \in DataValues }
    \cup { [d EXCEPT !.wf = FALSE] : d \in GoodEnvelopes }
    \cup { [d EXCEPT !.cc = c] : d \in GoodEnvelopes, c \in CompletionCodes \ {CompletionOK} }
    \cup { [d EXCEPT !.dlen = 0] : d \in GoodEnvelopes }

Handshake(p) == [Datagram EXCEPT !.ptype = p, !.sid = 0, !.auth = "none", !.enc = "none"]

OpenResOutcomes ==
    { [Handshake("OpenRes") EXCEPT !.mid = mi, !.suite = su] : mi \in ManagedIDs, su \in 0..3 }
    \cup { [Handshake("OpenRes") EXCEPT !.status = rakpStatusInsufficientResource],
           [Handshake("OpenRes") EXCEPT !.cid = 0] }

\* code: KeyExchangeAuthCode is the HMAC the client computes
RAKP2Outcomes ==
    { [Handshake("RAKP2") EXCEPT !.rc = r, !.code = k] : r \in ManagedRands, k \in BOOLEAN }
    \cup { [Handshake("RAKP2") EXCEPT !.status = rakpStatusInsufficientResource],
           [Handshake("RAKP2") EXCEPT !.cid = 0] }

\* code: IntegrityCheckValue is the HMAC the client computes
RAKP4Outcomes ==
    { [Handshake("RAKP4") EXCEPT !.code = k] : k \in BOOLEAN }
    \cup { [Handshake("RAKP4") EXCEPT !.status = rakpStatusInsufficientResource],
           [Handshake("RAKP4") EXCEPT !.cid = 0] }

Outcomes ==
    NetOutcomes \cup MalformedOutcomes \cup PongOutcomes \cup IPMIOutcomes
    \cup OpenResOutcomes \cup RAKP2Outcomes \cup RAKP4Outcomes

\* the results of net.DialTimeout
DialOutcomes == { NoErr, NetError(TRUE), NetError(FALSE) }

----------------------------------------------------------------------------
(* Receiving *)

\* ipmiResponseMessage.Unmarshal accepts the payload the client parses:
\* the peer's plaintext was well formed and, when it was encrypted, the
\* client decrypted it
parsesIPMI(o, decrypted) == o.wf /\ (o.enc = "none" \/ decrypted)

\* the error of sessionV1_5.SendPacket when the attempt meets o
SendPacketV1_5(o) ==
    IF o.kind = "net" THEN NetError(o.timeout)
    ELSE IF o.kind = "malformed" THEN MessageError("unmarshalMessage")
    ELSE IF o.kind = "pong" THEN MessageError("Received an unexpected message (IPMI)")
    ELSE IF o.ptype = "IPMI" /\ ~parsesIPMI(o, FALSE) THEN MessageError("Invalid IPMI response")
    ELSE NoErr

\* a SendPacket without the check of the received session id
SendPacketAnyID(m, o) ==
    LET active == ActiveSession(m)
        integ == active /\ requiredIntegrity(args.CipherSuiteID)
        conf == active /\ requiredConfidentiality(args.CipherSuiteID)
    IN IF o.kind = "net" THEN NetError(o.timeout)
       ELSE IF o.kind = "malformed" THEN MessageError("unmarshalMessage")
       ELSE IF o.kind = "pong" THEN MessageError("Received an unexpected message (IPMI)")
       ELSE IF integ /\ o.auth = "none" THEN MessageError("Response message is not authenticated")
       ELSE IF integ /\ o.auth = "bad" THEN MessageError("Received message with invalid authcode")
       ELSE IF conf /\ o.enc = "none" THEN MessageError("Response message is not encrypted")
       ELSE IF conf /\ o.enc = "bad" THEN MessageError("Payload is not the specified length")
       ELSE IF o.ptype = "IPMI" /\ ~parsesIPMI(o, conf) THEN MessageError("Invalid IPMI response")
       ELSE NoErr

\* a SendPacket that decrypts the payload before it verifies the trailer
SendPacketDecryptFirst(m, o) ==
    LET active == ActiveSession(m)
        integ == active /\ requiredIntegrity(args.CipherSuiteID)
        conf == active /\ requiredConfidentiality(args.CipherSuiteID)
    IN IF o.kind = "net" THEN NetError(o.timeout)
       ELSE IF o.kind = "malformed" THEN MessageError("unmarshalMessage")
       ELSE IF o.kind = "pong" THEN MessageError("Received an unexpected message (IPMI)")
       ELSE IF active /\ o.sid # consoleID THEN MessageError("Mismatch console session ID")
       ELSE IF conf /\ o.enc = "none" THEN MessageError("Response message is not encrypted")
       ELSE IF conf /\ o.enc = "bad" THEN MessageError("Payload is not the specified length")
       ELSE IF integ /\ o.auth = "none" THEN MessageError("Response message is not authenticated")
       ELSE IF integ /\ o.auth = "bad" THEN MessageError("Received message with invalid authcode")
       ELSE IF o.ptype = "IPMI" /\ ~parsesIPMI(o, conf) THEN MessageError("Invalid IPMI response")
       ELSE NoErr

\* the error of sessionV2_0.SendPacket when the attempt meets o
SendPacket(m, o) ==
    LET active == ActiveSession(m)
        integ == active /\ requiredIntegrity(args.CipherSuiteID)
        conf == active /\ requiredConfidentiality(args.CipherSuiteID)
    IN IF o.kind = "net" THEN NetError(o.timeout)
       ELSE IF o.kind = "malformed" THEN MessageError("unmarshalMessage")
       ELSE IF o.kind = "pong" THEN MessageError("Received an unexpected message (IPMI)")
       ELSE IF active /\ o.sid # consoleID THEN MessageError("Mismatch console session ID")
       ELSE IF integ /\ o.auth = "none" THEN MessageError("Response message is not authenticated")
       ELSE IF integ /\ o.auth = "bad" THEN MessageError("Received message with invalid authcode")
       ELSE IF conf /\ o.enc = "none" THEN MessageError("Response message is not encrypted")
       ELSE IF conf /\ o.enc = "bad" THEN MessageError("Payload is not the specified length")
       ELSE IF o.ptype = "IPMI" /\ ~parsesIPMI(o, conf) THEN MessageError("Invalid IPMI response")
       ELSE NoErr

\* an execute() without the check of the completion code
executeResultIgnoringCode(c, o) ==
    IF o.ptype # "IPMI" THEN MessageError("Received an unexpected message (Command)")
    ELSE IF o.dlen < cmdMinLength(c.name) THEN MessageError("Invalid Response size")
    ELSE NoErr

\* execute() after retry() returned nil with packet o: the error it returns
executeResult(c, o) ==
    IF o.ptype # "IPMI" THEN MessageError("Received an unexpected message (Command)")
    ELSE IF o.cc # CompletionOK THEN CommandError(o.cc, c.name)
    ELSE IF o.dlen < cmdMinLength(c.name) THEN MessageError("Invalid Response size")
    ELSE NoErr

\* an IsSupportedAuthType that tests the bit of authTypeMD5
IsSupportedMD5(support) == (support \div 4) % 2 = 1

\* channelAuthCapCommand.IsSupportedAuthType(authTypeRMCPPlus)
IsSupportedRMCPPlus(support) == (support \div 128) % 2 = 1

----------------------------------------------------------------------------
(* Transmissions *)

\* a packet written to the socket: payload type, command and its argument,
\* session id and sequence of the session header, rqSeq << 2, and whether
\* the payload is encrypted and the packet carries an integrity trailer
Tx(p, c, a, i, q, r, e, t) ==
    [ptype |-> p, cmd |-> c, arg |-> a, sid |-> i, seq |-> q, rq |-> r, enc |-> e, auth |-> t]

NoTx == Tx("none", "", 0, 0, Zero32, 0, FALSE, FALSE)

\* a SendPacket that protects the packets of an inactive session too
PacketAlwaysProtected(m, p, c, a, r) ==
    Tx(p, c, a, m.id, m.sequence, r,
       requiredConfidentiality(args.CipherSuiteID),
       requiredIntegrity(args.CipherSuiteID))

\* the packet sessionV2_0.SendPacket writes for payload type p in session m,
\* m being the session after Header() and NextRqSeq() ran
PacketV2_0(m, p, c, a, r) ==
    Tx(p, c, a, m.id, m.sequence, r,
       ActiveSession(m) /\ requiredConfidentiality(args.CipherSuiteID),
       ActiveSession(m) /\ requiredIntegrity(args.CipherSuiteID))

\* the locals of openSession before it has received anything
NoHs == [s1rq |-> 0, mid |-> 0, rm |-> 0, rc |-> 0]

NoRes == [set |-> FALSE, val |-> 0]

\* rx in the behaviours that do not record what the attempts meet
NotRecorded == [Datagram EXCEPT !.kind = "off"]

\* rx before the first attempt of an API call
NoRx == [Datagram EXCEPT !.kind = "none"]

\* bookkeeping of one attempt that met outcome o and would write packet tx,
\* the session going on as m;
\* txn starts from 0 when the next retry() starts
Attempt(o, tx, e, m) ==
    /\ last' = e
    /\ rsm' = IF e = NoErr /\ o.kind = "pkt" /\ o.ptype = "IPMI" THEN <<o.cc>> ELSE <<>>
    /\ IF o.sent
       THEN /\ lastTx' = tx
            /\ sent' = sent \cup {tx.cmd}
       ELSE UNCHANGED <<lastTx, sent>>
    /\ txn' = IF m.pc = "idle" \/ m.try > 0
              THEN txn + (IF o.sent THEN 1 ELSE 0)
              ELSE 0
    /\ rx' = IF rx = NotRecorded THEN rx ELSE o

----------------------------------------------------------------------------
(* API calls.  The caller is sequential: a call starts when the previous    *)
(* one has returned.                                                        *)

StartCall(name) ==
    /\ api' = name
    /\ last' = NoErr
    /\ rsm' = <<>>
    /\ txn' = 0
    /\ lastTx' = NoTx
    /\ sent' = {}
    /\ hs' = NoHs
    /\ rx' = IF rx = NotRecorded THEN rx ELSE NoRx
    /\ UNCHANGED <<args, dials>>

Fresh == [Cur EXCEPT !.ret = Pending, !.res = NoRes]

CallOpen ==
    /\ pc = "idle"
    /\ conn # NoConn \/ dials < MaxDials
    /\ StartCall("Open")
    /\ Install(Open(Fresh))

CallClose ==
    /\ pc = "idle"
    /\ rqSeq < 2 * MaxRqSeq
    /\ StartCall("Close")
    /\ Install(Close(Fresh))

CallExecute(c) ==
    /\ pc = "idle"
    /\ conn # NoConn \/ dials < MaxDials
    /\ rqSeq < MaxRqSeq
    /\ StartCall("Execute")
    /\ Install(Execute(Fresh, c))

CallPing ==
    /\ pc = "idle"
    /\ dials < MaxDials
    /\ StartCall("Ping")
    /\ Install([Fresh EXCEPT !.pc = "pingdial"])

----------------------------------------------------------------------------
(* Open: dial and openSession *)

\* the locals of openSession that are still live when m goes on: s1 until
\* the capabilities are known, none once RAKP 4 was received
HsAfter(m, h) ==
    IF m.pc \in {"cac1", "cac2"} THEN h
    ELSE IF m.pc \in {"openreq", "rakp1", "rakp3"} THEN [h EXCEPT !.s1rq = 0]
    ELSE NoHs

\* one net.DialTimeout of the retry() in Open
Dial ==
    /\ pc = "dial"
    /\ \E e \in DialOutcomes :
        /\ last' = e
        /\ IF e = NoErr
           THEN /\ dials' = dials + 1
                /\ Install([Cur EXCEPT !.conn = dials + 1, !.socks = @ \cup {dials + 1},
                                       !.pc = "cac1", !.try = 0])
           ELSE /\ UNCHANGED dials
                /\ IF retryContinues(args.Retries, try, e)
                   THEN Install([Cur EXCEPT !.try = @ + 1])
                   ELSE Install(Return(Pop(Cur), e))
    /\ hs' = NoHs
    /\ UNCHANGED <<args, api, rsm, txn, lastTx, sent, rx>>

\* one attempt of s1.execute(cac): with the IPMI v2 bit (cac1), without (cac2)
Cac ==
    /\ pc \in {"cac1", "cac2"}
    /\ \E o \in Outcomes :
        LET c == newChannelAuthCapCommand(IF pc = "cac1" THEN V2_0 ELSE V1_5)
            tx == Tx("IPMIv1_5", c.name, c.arg, 0, Zero32, hs.s1rq * 4, FALSE, FALSE)
            h == [hs EXCEPT !.s1rq = NextRqSeq(@)]
            e1 == SendPacketV1_5(o)
            e2 == IF e1 # NoErr THEN e1 ELSE executeResult(c, o)
            m == IF retryContinues(args.Retries, try, e1)
                    THEN [Cur EXCEPT !.try = @ + 1]
                 ELSE IF e2 # NoErr /\ pc = "cac1"
                    THEN [Cur EXCEPT !.pc = "cac2", !.try = 0]
                 ELSE IF e2 # NoErr
                    THEN OpenFail(Cur, e2)
                 ELSE IF ~IsSupportedRMCPPlus(o.val)
                    THEN OpenFail(Cur, MessageError("Not Support RMCP+"))
                 ELSE [Cur EXCEPT !.pc = "openreq", !.try = 0]
        IN /\ Attempt(o, tx, e1, m)
           /\ Install(m)
           /\ hs' = HsAfter(m, h)
    /\ UNCHANGED <<args, dials, api>>

\* an openSession that does not compare the cipher suite of the response
openSessionResponseResultAnySuite(o) ==
    IF o.ptype # "OpenRes"
        THEN MessageError("Received an unexpected message (Open Session Response)")
    ELSE IF o.status # rakpStatusNoErrors THEN MessageError("Error in Open Session Response")
    ELSE IF consoleID # o.cid
        THEN MessageError("Mismatch console session ID in Open Session Response")
    ELSE NoErr

\* openSession after retry() returned nil with packet o (Open Session Response)
openSessionResponseResult(o) ==
    IF o.ptype # "OpenRes"
        THEN MessageError("Received an unexpected message (Open Session Response)")
    ELSE IF o.status # rakpStatusNoErrors THEN MessageError("Error in Open Session Response")
    ELSE IF consoleID # o.cid
        THEN MessageError("Mismatch console session ID in Open Session Response")
    ELSE IF o.suite # args.CipherSuiteID THEN MessageError("Mismatch cipher suite")
    ELSE NoErr

\* one attempt of the Open Session Request
OpenReq ==
    /\ pc = "openreq"
    /\ \E o \in Outcomes :
        LET priv == IF args.PrivilegeLevel = PrivilegeAdministrator
                    THEN 0 ELSE args.PrivilegeLevel
            m0 == [Cur EXCEPT !.sequence = NextSequence(Cur)]
            tx == PacketV2_0(m0, "OpenReq", "OpenSessionRequest", priv, 0)
            e1 == SendPacket(m0, o)
            e2 == IF e1 # NoErr THEN e1 ELSE openSessionResponseResult(o)
            m == IF retryContinues(args.Retries, try, e1)
                    THEN [m0 EXCEPT !.try = @ + 1]
                 ELSE IF e2 # NoErr
                    THEN OpenFail(m0, e2)
                 ELSE [m0 EXCEPT !.pc = "rakp1", !.try = 0]
        IN /\ Attempt(o, tx, e1, m)
           /\ Install(m)
           /\ hs' = HsAfter(m, IF m.pc = "rakp1" THEN [hs EXCEPT !.mid = o.mid] ELSE hs)
    /\ UNCHANGED <<args, dials, api>>

\* a ValidateAuthCode that accepts every KeyExchangeAuthCode
ValidateAuthCode2Skipped(o) == NoErr

\* rakpMessage2.ValidateAuthCode
ValidateAuthCode2(o) ==
    IF requiredAuthentication(args.CipherSuiteID) /\ ~o.code
    THEN MessageError("RAKP 2 HMAC is invalid")
    ELSE NoErr

\* openSession after retry() returned nil with packet o (RAKP 2)
rakp2Result(o) ==
    IF o.ptype # "RAKP2" THEN MessageError("Received an unexpected message (RAKP 2)")
    ELSE IF o.status # rakpStatusNoErrors THEN MessageError("Error in RAKP 2")
    ELSE IF consoleID # o.cid THEN MessageError("Mismatch console session ID in RAKP 2")
    ELSE ValidateAuthCode2(o)

\* one attempt of RAKP Message 1; Marshal draws the console random number
Rakp1 ==
    /\ pc = "rakp1"
    /\ \E o \in Outcomes, rm \in ConsoleRands :
        LET m0 == [Cur EXCEPT !.sequence = NextSequence(Cur)]
            tx == PacketV2_0(m0, "RAKP1", "RAKP1", hs.mid, 0)
            e1 == SendPacket(m0, o)
            e2 == IF e1 # NoErr THEN e1 ELSE rakp2Result(o)
            m == IF retryContinues(args.Retries, try, e1)
                    THEN [m0 EXCEPT !.try = @ + 1]
                 ELSE IF e2 # NoErr
                    THEN OpenFail(m0, e2)
                 ELSE [m0 EXCEPT !.pc = "rakp3", !.try = 0]
        IN /\ Attempt(o, tx, e1, m)
           /\ Install(m)
           /\ hs' = HsAfter(m, IF m.pc = "rakp3" THEN [hs EXCEPT !.rm = rm, !.rc = o.rc]
                                ELSE [hs EXCEPT !.rm = rm])
    /\ UNCHANGED <<args, dials, api>>

\* rakpMessage4.ValidateAuthCode
ValidateAuthCode4(o) ==
    IF requiredAuthentication(args.CipherSuiteID) /\ ~o.code
    THEN MessageError("RAKP 4 HMAC is invalid")
    ELSE NoErr

\* openSession after retry() returned nil with packet o (RAKP 4)
rakp4Result(o) ==
    IF o.ptype # "RAKP4" THEN MessageError("Received an unexpected message (RAKP 4)")
    ELSE IF o.status # rakpStatusNoErrors THEN MessageError("Error in RAKP 4")
    ELSE IF consoleID # o.cid THEN MessageError("Mismatch console session ID in RAKP 4")
    ELSE ValidateAuthCode4(o)

\* rakpMessage3.GenerateK1 / GenerateK2 after GenerateSIK: K<label>
GenerateK(label, rm, rc) ==
    IF requiredAuthentication(args.CipherSuiteID)
    THEN Key("hmac", label, rm, rc)
    ELSE ZeroKey

\* an openSession that also elevates the privilege of a USER session
ActivateFromUser(m, h) ==
    LET m1 == [m EXCEPT !.id = h.mid,
                        !.k1 = GenerateK(1, h.rm, h.rc),
                        !.k2 = GenerateK(2, h.rm, h.rc)]
    IN IF args.PrivilegeLevel >= PrivilegeUser
       THEN [m1 EXCEPT !.pc = "exec", !.try = 0,
                       !.cmd = newSetSessionPrivilegeCommand(args.PrivilegeLevel)]
       ELSE OpenDone(m1)

\* openSession from "Set session ID" on
Activate(m, h) ==
    LET m1 == [m EXCEPT !.id = h.mid,
                        !.k1 = GenerateK(1, h.rm, h.rc),
                        !.k2 = GenerateK(2, h.rm, h.rc)]
    IN IF args.PrivilegeLevel > PrivilegeUser
       THEN [m1 EXCEPT !.pc = "exec", !.try = 0,
                       !.cmd = newSetSessionPrivilegeCommand(args.PrivilegeLevel)]
       ELSE OpenDone(m1)

\* one attempt of RAKP Message 3
Rakp3 ==
    /\ pc = "rakp3"
    /\ \E o \in Outcomes :
        LET m0 == [Cur EXCEPT !.sequence = NextSequence(Cur)]
            tx == PacketV2_0(m0, "RAKP3", "RAKP3", hs.mid, 0)
            e1 == SendPacket(m0, o)
            e2 == IF e1 # NoErr THEN e1 ELSE rakp4Result(o)
            m == IF retryContinues(args.Retries, try, e1)
                    THEN [m0 EXCEPT !.try = @ + 1]
                 ELSE IF e2 # NoErr
                    THEN OpenFail(m0, e2)
                 ELSE Activate(m0, hs)
        IN /\ Attempt(o, tx, e1, m)
           /\ Install(m)
           /\ hs' = HsAfter(m, hs)
    /\ UNCHANGED <<args, dials, api>>

----------------------------------------------------------------------------
(* execute *)

\* execute() returns rv to openSession (Set Session Privilege) or to Execute
executeReturn(m, rv) ==
    IF Top(m).fn = "Execute"
    THEN Return(Pop(m), rv)
    ELSE IF rv # NoErr
    THEN OpenFail(m, MessageErrorCause("Unable to set session privilege level", rv))
    ELSE OpenDone(m)

\* cmd.Unmarshal fills the response fields of the caller's command
Unmarshalled(m, o) ==
    IF m.cmd \in UserCommands THEN [m EXCEPT !.res = [set |-> TRUE, val |-> o.val]] ELSE m

\* one attempt of the retry() in execute
Exec ==
    /\ pc = "exec"
    /\ \E o \in Outcomes :
        LET m0 == [Cur EXCEPT !.sequence = NextSequence(Cur), !.rqSeq = NextRqSeq(@)]
            tx == PacketV2_0(m0, "IPMI", cmd.name, cmd.arg, rqSeq * 4)
            e1 == SendPacket(m0, o)
            e2 == IF e1 # NoErr THEN e1 ELSE executeResult(cmd, o)
            m == IF retryContinues(args.Retries, try, e1)
                    THEN [m0 EXCEPT !.try = @ + 1]
                 ELSE IF e2 # NoErr
                    THEN executeReturn(m0, e2)
                 ELSE executeReturn(Unmarshalled(m0, o), NoErr)
        IN /\ Attempt(o, tx, e1, m)
           /\ Install(m)
    /\ hs' = NoHs
    /\ UNCHANGED <<args, dials, api>>

----------------------------------------------------------------------------
(* Ping *)

\* net.DialTimeout in Ping: no retry
PingDial ==
    /\ pc = "pingdial"
    /\ \E e \in DialOutcomes :
        /\ last' = e
        /\ IF e = NoErr
           THEN /\ dials' = dials + 1
                /\ Install([Cur EXCEPT !.socks = @ \cup {dials + 1}, !.pc = "ping"])
           ELSE /\ UNCHANGED dials
                /\ Install(Return(Cur, e))
    /\ UNCHANGED <<args, api, hs, rsm, txn, lastTx, sent, rx>>

\* ping() after sendMessage met o
pingResult(o) ==
    IF o.kind = "net" THEN NetError(o.timeout)
    ELSE IF o.kind = "malformed" THEN MessageError("unmarshalMessage")
    ELSE IF o.kind # "pong" THEN MessageError("Received an unexpected message (Ping)")
    ELSE IF ~o.sup THEN MessageError("Not Supported IPMI")
    ELSE NoErr

\* ping(conn) and the deferred conn.Close() of the socket Ping dialed
PingTx ==
    /\ pc = "ping"
    /\ \E o \in Outcomes :
        LET m == Return([Cur EXCEPT !.socks = @ \ {dials}], pingResult(o))
        IN /\ Attempt(o, Tx("ASF", "Ping", 0, 0, Zero32, 0, FALSE, FALSE), pingResult(o), m)
           /\ Install(m)
    /\ UNCHANGED <<args, dials, api, hs>>

----------------------------------------------------------------------------
(* NewClient *)

\* the limits of the user name and of the v2.0 password
passwordMaxLengthV2_0 == 20
userNameMaxLength == 16

\* len(cipherSuiteIDs): the suites of Table 22-20
cipherSuiteCount == 15

ArgumentError(m) == Err("ArgumentError", FALSE, m, 0, "", <<>>)

\* a string of k bytes
Bytes(k) == [i \in 1..k |-> "x"]

\* the Arguments explored; Timeout is in seconds
ArgumentsSet ==
    [ Version : {0, V1_5, V2_0, 3},
      Network : {"", "udp"},
      Timeout : {0, 2},
      Retries : {0, 1},
      Username : {Bytes(0), Bytes(16), Bytes(17)},
      Password : {Bytes(0), Bytes(20), Bytes(21)},
      PrivilegeLevel : {0, PrivilegeCallback, PrivilegeOperator, PrivilegeAdministrator, 5},
      CipherSuiteID : {0, 3, 4, 14, 15} ]

\* a validate() whose v2.0 case accepts every suite of Table 22-20
validateAnySuite(a) ==
    IF a.Version = V2_0
    THEN IF Len(a.Password) > passwordMaxLengthV2_0
            THEN ArgumentError("Password is too long")
         ELSE IF a.CipherSuiteID < 0 \/ a.CipherSuiteID > cipherSuiteCount - 1
            THEN ArgumentError("Invalid Cipher Suite ID")
         ELSE IF a.PrivilegeLevel < 0 \/ a.PrivilegeLevel > PrivilegeAdministrator
            THEN ArgumentError("Invalid Privilege Level")
         ELSE IF Len(a.Username) > userNameMaxLength
            THEN ArgumentError("Username is too long")
         ELSE NoErr
    ELSE ArgumentError("Unsupported IPMI version")

\* Arguments.validate(): the error it returns
validate(a) ==
    IF a.Version = V2_0
    THEN IF Len(a.Password) > passwordMaxLengthV2_0
            THEN ArgumentError("Password is too long")
         ELSE IF a.CipherSuiteID < 0 \/ a.CipherSuiteID > cipherSuiteCount - 1
            THEN ArgumentError("Invalid Cipher Suite ID")
         ELSE IF a.CipherSuiteID > 3
            THEN ArgumentError("Unsupported Cipher Suite ID in ipmigo")
         ELSE IF a.PrivilegeLevel < 0 \/ a.PrivilegeLevel > PrivilegeAdministrator
            THEN ArgumentError("Invalid Privilege Level")
         ELSE IF Len(a.Username) > userNameMaxLength
            THEN ArgumentError("Username is too long")
         ELSE NoErr
    ELSE ArgumentError("Unsupported IPMI version")

\* Arguments.setDefault(): the Arguments it leaves
setDefault(a) ==
    [a EXCEPT !.Version = IF @ = 0 THEN V2_0 ELSE @,
              !.Network = IF @ = "" THEN "udp" ELSE @,
              !.Timeout = IF @ = 0 THEN 5 ELSE @,
              !.PrivilegeLevel = IF @ = 0 THEN PrivilegeAdministrator ELSE @]

\* NewClient(args): validate, then setDefault on the copy the client keeps
NewClient ==
    /\ newPc = "call"
    /\ newPc' = "done"
    /\ newErr' = validate(arguments)
    /\ client' = IF validate(arguments) # NoErr THEN <<>> ELSE <<setDefault(arguments)>>
    /\ UNCHANGED <<arguments, sessionVars, sdrVars, sel, msg>>

\* no NewClient call in this behaviour
ArgsParked ==
    /\ arguments = [ Version |-> V2_0, Network |-> "udp", Timeout |-> 5, Retries |-> 0,
                     Username |-> Bytes(0), Password |-> Bytes(0),
                     PrivilegeLevel |-> PrivilegeAdministrator, CipherSuiteID |-> 0 ]
    /\ client = <<>>
    /\ newErr = NoErr
    /\ newPc = "parked"

----------------------------------------------------------------------------
(* SDRGetRecordsRepo and the BMC it talks to *)

\* most records in the repository
MaxRecords == 2
\* the latest Get SDR the BMC may answer with its fault code
MaxFaultAt == 6

sdrFirstID == 0
sdrLastID == 65535
sdrHeaderSize == 5
sdrDefaultReadBytes == 32
sdrCommonSensorSize == 18
sdrFullSensorSize == 25 + sdrCommonSensorSize
sdrFRUDeviceLocatorSize == 11
SDRTypeFullSensor == 1
SDRTypeFRUDeviceLocator == 17
SDRTypeOEM == 192

Min(a, b) == IF a < b THEN a ELSE b

\* the kinds of record a repository holds: type and length of key and body
RecordKinds ==
    { [type |-> SDRTypeFullSensor, len |-> sdrFullSensorSize],
      [type |-> SDRTypeFRUDeviceLocator, len |-> sdrFRUDeviceLocatorSize],
      [type |-> SDRTypeOEM, len |-> 6] }

\* the repositories explored: record i has record id i
Repos ==
    UNION { [1..k -> RecordKinds] : k \in 0..MaxRecords }

\* key and body bytes of record i
RecordBody(i) == [k \in 1..repo[i].len |-> (i * 50 + k) % 256]

\* the bytes of record i: header (id, version, type, length), key and body
RecordBytes(i) ==
    <<i % 256, i \div 256, 81, repo[i].type, repo[i].len>> \o RecordBody(i)

\* a response: completion code, next record id, record data
Resp(c, nx, d) == [cc |-> c, next |-> nx, data |-> d]

\* the BMC's answer to Get SDR(record id rid, offset off, rb bytes to read)
BmcGetSDR(rid, off, rb) ==
    LET i == IF rid = sdrFirstID THEN 1 ELSE rid
    IN IF getSDRs + 1 = faultAt THEN Resp(faultCode, 0, <<>>)
       ELSE IF i \notin 1..Len(repo) THEN Resp(CompletionUnspecifiedError, 0, <<>>)
       ELSE IF rb > bmcMaxRead THEN Resp(CompletionRequestDataFieldExceedEd, 0, <<>>)
       ELSE Resp(CompletionOK,
                 IF i = Len(repo) THEN sdrLastID ELSE i + 1,
                 SubSeq(RecordBytes(i), off + 1,
                        Min(off + Min(rb, bmcMaxData), Len(RecordBytes(i)))))

\* GetSDRCommand.Unmarshal: RecordData, at most ReadBytes bytes of the data
RecordData(r, rb) == SubSeq(r.data, 1, Min(Len(r.data), rb))

\* a nil *sdrHeader
NoHeader == <<>>

\* sdrHeader.Unmarshal: the error for a buffer of l bytes
sdrHeaderUnmarshal(l) ==
    IF l < sdrHeaderSize THEN MessageError("Invalid SDRHeader size") ELSE NoErr

\* Unmarshal of the record type t on a buffer of l bytes: the error
sdrUnmarshal(t, l) ==
    IF t = SDRTypeFullSensor /\ l < sdrFullSensorSize
        THEN MessageError("Invalid SDRFullSensor size")
    ELSE IF t = SDRTypeFRUDeviceLocator /\ l < sdrFRUDeviceLocatorSize
        THEN MessageError("Invalid SDRFRUDeviceLocator size")
    ELSE NoErr

\* a filter that accepts every record
FilterAcceptsAll(f, t) == TRUE

\* filter == nil || filter(id, t)
FilterAccepts(f, t) == f.nil \/ t \in f.types

\* the filters explored
Filters ==
    { [nil |-> TRUE, types |-> {}],
      [nil |-> FALSE, types |-> {SDRTypeFullSensor}],
      [nil |-> FALSE, types |-> {SDRTypeFRUDeviceLocator, SDRTypeOEM}] }

\* copy(buf[n:], data)
CopyAt(b, at, d) ==
    [k \in 1..Len(b) |-> IF k > at /\ k - at <= Len(d) THEN d[k - at] ELSE b[k]]

\* the locals of SDRGetRecordsRepo and sdrGetRecord as one record
CurSdr ==
    [ sdrReadingBytes |-> sdrReadingBytes, sensors |-> sensors,
      reservation |-> reservation, header |-> header, nextID |-> nextID,
      recordID |-> recordID, n |-> n, buf |-> buf, spc |-> spc, serr |-> serr ]

InstallSdr(s) ==
    /\ sdrReadingBytes' = s.sdrReadingBytes
    /\ sensors' = s.sensors
    /\ reservation' = s.reservation
    /\ header' = s.header
    /\ nextID' = s.nextID
    /\ recordID' = s.recordID
    /\ n' = s.n
    /\ buf' = s.buf
    /\ spc' = s.spc
    /\ serr' = s.serr
    /\ UNCHANGED <<repo, faultAt, faultCode, bmcMaxRead, bmcMaxData, bmcVersion, filter>>
    /\ UNCHANGED <<sessionVars, argVars, sel, msg>>

\* return nil, e
SdrFail(s, e) == [s EXCEPT !.spc = "done", !.serr = e, !.sensors = <<>>]

\* goto retry: the locals declared after the label start over
GotoRetry(s) ==
    [s EXCEPT !.spc = "reserve", !.header = NoHeader, !.nextID = 0]

\* a loop that ends after its first record
LoopHeadOnce(s) ==
    IF s.recordID = sdrFirstID
    THEN [s EXCEPT !.spc = "header"]
    ELSE [s EXCEPT !.spc = "done", !.serr = NoErr]

\* the head of the for loop, header being nil
LoopHead(s) ==
    IF s.recordID # sdrLastID
    THEN [s EXCEPT !.spc = "header"]
    ELSE [s EXCEPT !.spc = "done", !.serr = NoErr]

\* the end of the loop body
LoopEnd(s) == LoopHead([s EXCEPT !.header = NoHeader, !.recordID = s.nextID])

\* sdrGetRecord once buf is filled, and the append of its record
RecordDone(s) ==
    IF sdrUnmarshal(s.header[1].RecordType, Len(s.buf)) # NoErr
    THEN SdrFail(s, sdrUnmarshal(s.header[1].RecordType, Len(s.buf)))
    ELSE LoopEnd([s EXCEPT !.sensors =
                     Append(@, [id |-> s.header[1].RecordID, type |-> s.header[1].RecordType,
                                data |-> s.buf])])

\* the loop body once the header is known
HaveHeader(s) ==
    IF FilterAccepts(filter, s.header[1].RecordType)
    THEN IF s.header[1].RemainingBytes > 0
         THEN [s EXCEPT !.buf = [k \in 1..s.header[1].RemainingBytes |-> 0], !.n = 0,
                        !.spc = "record"]
         ELSE RecordDone([s EXCEPT !.buf = <<>>, !.n = 0])
    ELSE LoopEnd(s)

\* the completion codes the BMC may answer one Get SDR with
FaultCodes ==
    {CompletionReservationCancelled, CompletionInvalidCommand, CompletionTimeout,
     CompletionRequestDataFieldExceedEd}

GetSDRRequest(rs, rid, off, rb) ==
    [ReservationID |-> rs, RecordID |-> rid, RecordOffset |-> off, ReadBytes |-> rb]

NoRequest == GetSDRRequest(0, 0, 0, 0)

\* Get SDR Repository Info and the checks of its response
SdrGetInfo ==
    /\ spc = "info"
    /\ InstallSdr(IF bmcVersion \notin {1, 81, 2}
                     THEN SdrFail(CurSdr, MessageError("Unknown SDR repository version"))
                  ELSE IF Len(repo) = 0
                     THEN SdrFail(CurSdr, MessageError("SDR record is zero in repository"))
                  ELSE [CurSdr EXCEPT !.sensors = <<>>, !.spc = "reserve"])
    /\ UNCHANGED <<bmcReservation, getSDRs, lastReq, lastCc>>

\* Reserve SDR Repository, after the label retry
SdrReserve ==
    /\ spc = "reserve"
    /\ bmcReservation' = (bmcReservation + 1) % 65536
    /\ InstallSdr(LoopHead([CurSdr EXCEPT !.reservation = (bmcReservation + 1) % 65536,
                                          !.header = NoHeader, !.nextID = 0,
                                          !.recordID = sdrFirstID]))
    /\ UNCHANGED <<getSDRs, lastReq, lastCc>>

\* sdrGetRecordHeaderAndNextID and what the loop does with its result
SdrGetHeader ==
    /\ spc = "header"
    /\ getSDRs' = getSDRs + 1
    /\ lastReq' = GetSDRRequest(reservation, recordID, 0, sdrHeaderSize)
    /\ lastCc' = BmcGetSDR(recordID, 0, sdrHeaderSize).cc
    /\ LET r == BmcGetSDR(recordID, 0, sdrHeaderSize)
           d == RecordData(r, sdrHeaderSize)
           h == [ RecordID |-> IF recordID # sdrFirstID THEN recordID ELSE d[1] + 256 * d[2],
                  RecordType |-> d[4],
                  RemainingBytes |-> d[5] ]
       IN InstallSdr(IF r.cc = CompletionReservationCancelled
                        THEN GotoRetry(CurSdr)
                     ELSE IF r.cc # CompletionOK
                        THEN SdrFail(CurSdr, CommandError(r.cc, "Get SDR"))
                     ELSE IF sdrHeaderUnmarshal(Len(d)) # NoErr
                        THEN SdrFail(CurSdr, sdrHeaderUnmarshal(Len(d)))
                     ELSE HaveHeader([CurSdr EXCEPT !.header = <<h>>, !.nextID = r.next]))
    /\ UNCHANGED bmcReservation

\* an adjustment without the floor at the header size
AdjustedNoFloor(rb) == (rb + 256 - 8) % 256

\* sdrReadingBytes after one step of the adjustment (uint8 arithmetic)
Adjusted(rb) ==
    IF (rb + 256 - 8) % 256 < sdrHeaderSize THEN sdrHeaderSize ELSE (rb + 256 - 8) % 256

\* one Get SDR of the loop in sdrGetRecord and what follows it
SdrGetChunk ==
    /\ spc = "record"
    /\ getSDRs' = getSDRs + 1
    /\ LET rb == Min(header[1].RemainingBytes - n, sdrReadingBytes)
           off == (n + sdrHeaderSize) % 256
           r == BmcGetSDR(header[1].RecordID, off, rb)
           d == RecordData(r, rb)
           n1 == (n + Len(d)) % 256
           s1 == [CurSdr EXCEPT !.buf = CopyAt(@, n, d), !.n = n1]
       IN /\ lastReq' = GetSDRRequest(reservation, header[1].RecordID, off, rb)
          /\ lastCc' = r.cc
          /\ InstallSdr(IF r.cc = CompletionRequestDataFieldExceedEd
                           /\ sdrReadingBytes > sdrHeaderSize
                           THEN [CurSdr EXCEPT !.sdrReadingBytes = Adjusted(@)]
                        ELSE IF r.cc = CompletionReservationCancelled
                           THEN GotoRetry(CurSdr)
                        ELSE IF r.cc # CompletionOK
                           THEN SdrFail(CurSdr, CommandError(r.cc, "Get SDR"))
                        ELSE IF n1 < header[1].RemainingBytes
                           THEN s1
                        ELSE RecordDone(s1))
    /\ UNCHANGED bmcReservation

\* no SDR enumeration in this behaviour
SdrParked ==
    /\ repo = <<>>
    /\ bmcReservation = 0
    /\ getSDRs = 0
    /\ faultAt = 0
    /\ faultCode = CompletionOK
    /\ bmcMaxRead = 255
    /\ bmcMaxData = 255
    /\ bmcVersion = 81
    /\ sdrReadingBytes = sdrDefaultReadBytes
    /\ filter = [nil |-> TRUE, types |-> {}]
    /\ sensors = <<>>
    /\ reservation = 0
    /\ header = NoHeader
    /\ nextID = 0
    /\ recordID = sdrFirstID
    /\ n = 0
    /\ buf = <<>>
    /\ spc = "parked"
    /\ serr = NoErr
    /\ lastReq = NoRequest
    /\ lastCc = CompletionOK

----------------------------------------------------------------------------
(* SELGetEntries and the BMC it talks to *)

\* most entries in the log
MaxEntries == 3
\* the latest command of SELGetEntries that may fail
MaxSelFault == 5

selFirstID == 0
selLastID == 65535

\* the record id of the k-th entry (from 0) of log s: linearly spaced ids
SelRecordID(s, k) == (s.first + s.delta * k) % 65536

\* a request written by SELGetEntries
SelRequest(name, rs, rid) == [name |-> name, ReservationID |-> rs, RecordID |-> rid]

\* c.Execute fails for the command being issued
SelFails(s) == Len(s.cmds) + 1 = s.faultAt

\* selGetRecord(c, reservation, id) on log s: error, record id and next id
selGetRecord(s, rid) ==
    LET ks == {k \in 0..(s.entries - 1) : rid = selFirstID \/ SelRecordID(s, k) = rid}
        k == CHOOSE x \in ks : \A y \in ks : x <= y
    IN IF SelFails(s)
          THEN [err |-> CommandError(CompletionInvalidCommand, "Get SEL Entry"),
                id |-> 0, next |-> selLastID]
       ELSE IF ks = {}
          THEN [err |-> CommandError(CompletionUnspecifiedError, "Get SEL Entry"),
                id |-> 0, next |-> selLastID]
       ELSE [err |-> NoErr, id |-> SelRecordID(s, k),
             next |-> IF k = s.entries - 1 THEN selLastID ELSE SelRecordID(s, k + 1)]

\* a loop that walks to the end of the log whatever num is
SelLoopHeadNoCount(s) ==
    IF s.id # selLastID
    THEN [s EXCEPT !.pc = "walk"]
    ELSE [s EXCEPT !.pc = "done",
                   !.records = IF Len(@) > s.num
                               THEN SubSeq(@, Len(@) - s.num + 1, Len(@)) ELSE @]

\* an early return that does not look at offset
selReturnsEmptyAnyOffset(total, offset, num) == total = 0 \/ num <= 0

\* total == 0 || num <= 0 || offset < 0 || offset >= total
selReturnsEmpty(total, offset, num) ==
    total = 0 \/ num <= 0 \/ offset < 0 \/ offset >= total

\* the head of the for loop of SELGetEntries, and the return after it
SelLoopHead(s) ==
    IF s.n < s.num /\ s.id # selLastID
    THEN [s EXCEPT !.pc = "walk"]
    ELSE [s EXCEPT !.pc = "done",
                   !.records = IF Len(@) > s.num
                               THEN SubSeq(@, Len(@) - s.num + 1, Len(@)) ELSE @]

\* Get SEL Info and the checks of its response
SelGetInfo ==
    /\ sel.pc = "info"
    /\ LET s == [sel EXCEPT !.cmds = Append(@, SelRequest("Get SEL Info", 0, 0))]
       IN sel' = IF SelFails(sel)
                    THEN [s EXCEPT !.pc = "done",
                                   !.err = CommandError(CompletionInvalidCommand, "Get SEL Info")]
                 ELSE IF s.version # 81 /\ s.version # 2
                    THEN [s EXCEPT !.pc = "done", !.err = MessageError("Unknown SEL version")]
                 ELSE IF selReturnsEmpty(s.entries, s.offset, s.num)
                    THEN [s EXCEPT !.pc = "done", !.total = s.entries]
                 ELSE [s EXCEPT !.total = s.entries,
                                !.num = Min(s.num, s.entries - s.offset),
                                !.roffset = selFirstID,
                                !.pc = IF s.offset > 0 THEN "first" ELSE "reserve"]
    /\ UNCHANGED <<sessionVars, argVars, sdrVars, msg>>

\* the fetch of the first record, without reservation, for the id stride
SelGetFirst ==
    /\ sel.pc = "first"
    /\ LET s == [sel EXCEPT !.cmds = Append(@, SelRequest("Get SEL Entry", 0, selFirstID))]
           r == selGetRecord(sel, selFirstID)
           delta == (r.next + 65536 - r.id) % 65536
       IN sel' = IF r.err # NoErr
                    THEN [s EXCEPT !.pc = "done"]
                 ELSE [s EXCEPT !.roffset = (delta * s.offset + r.id) % 65536,
                                !.pc = "reserve"]
    /\ UNCHANGED <<sessionVars, argVars, sdrVars, msg>>

\* Reserve SEL
SelReserve ==
    /\ sel.pc = "reserve"
    /\ LET s == [sel EXCEPT !.cmds = Append(@, SelRequest("Reserve SEL", 0, 0))]
       IN sel' = IF SelFails(sel)
                    THEN [s EXCEPT !.pc = "done",
                                   !.err = CommandError(CompletionInvalidCommand, "Reserve SEL")]
                 ELSE SelLoopHead([s EXCEPT !.reservation = 7,
                                            !.n = 0, !.id = s.roffset])
    /\ UNCHANGED <<sessionVars, argVars, sdrVars, msg>>

\* one selGetRecord of the walk
SelGetEntry ==
    /\ sel.pc = "walk"
    /\ LET s == [sel EXCEPT !.cmds =
                     Append(@, SelRequest("Get SEL Entry", sel.reservation, sel.id))]
           r == selGetRecord(sel, sel.id)
       IN sel' = IF r.err # NoErr
                    THEN [s EXCEPT !.pc = "done", !.err = r.err, !.id = r.next]
                 ELSE SelLoopHead([s EXCEPT !.records = Append(@, r.id),
                                            !.id = r.next, !.n = @ + 1])
    /\ UNCHANGED <<sessionVars, argVars, sdrVars, msg>>

\* the locals of SELGetEntries(c, offset, num) at its call, on a BMC whose log
\* has `entries` records with ids first, first + delta, ...
SelCall(first, delta, entries, version, fa, offset, num) ==
    [ first |-> first, delta |-> delta, entries |-> entries, version |-> version,
      faultAt |-> fa, cmds |-> <<>>, offset |-> offset, num |-> num, numArg |-> num,
      roffset |-> selFirstID, reservation |-> 0, n |-> 0, id |-> selFirstID,
      records |-> <<>>, total |-> 0, err |-> NoErr, pc |-> "info" ]

\* no SEL retrieval in this behaviour
SelParked == sel = [SelCall(1, 1, 0, 81, 0, 0, 0) EXCEPT !.pc = "parked"]


----------------------------------------------------------------------------
(* One IPMI message: the request as ipmiRequestMessage.Marshal and          *)
(* SendPacket put it on the wire, and the response as                       *)
(* ipmiResponseMessage.Unmarshal and execute take it                        *)

\* most data bytes in a response
MaxData == 5

NetFnChassisReq == 0
NetFnAppReq == 6
ipmiResponseMessageMinSize == 8
sessionHeaderV2_0Size == 12
aesBlockSize == 16

NewNetFnRsLUN(netFn, rsLUN) == ((netFn * 4) % 256) + (rsLUN % 4)

RECURSIVE Sum(_)
\* the sum of the bytes of b as a byte
Sum(b) == IF b = <<>> THEN 0 ELSE (b[1] + Sum(Tail(b))) % 256

\* a checksum() that returns the sum
checksumPlain(b) == Sum(b)

\* checksum(buf): minus the sum of the bytes, as a byte
checksum(b) == (256 - Sum(b)) % 256

\* commands: network function, code, request data, and the minimal response
\* length Unmarshal accepts
MsgCommand(name, netFn, code, data, min) ==
    [name |-> name, netFn |-> netFn, code |-> code, data |-> data, min |-> min]

MsgCommands ==
    { MsgCommand("SetSessionPrivilege", NetFnAppReq, 59, <<PrivilegeOperator>>, 1),
      MsgCommand("CloseSession", NetFnAppReq, 60, <<2, 0, 0, 0>>, 0),
      MsgCommand("GetPOHCounter", NetFnChassisReq, 15, <<>>, 5) }

\* ipmiRequestMessage.Marshal
ipmiRequestMessageMarshal(m) ==
    LET head == <<m.RsAddr, NewNetFnRsLUN(m.Command.netFn, 0)>>
        body == <<m.RqAddr, m.RqSeq, m.Command.code>> \o m.Command.data
    IN head \o <<checksum(head)>> \o body \o <<checksum(body)>>

\* encryptPayload: the length of what it returns for srcLen bytes
encryptedLength(srcLen) ==
    LET mod == (srcLen + 1) % aesBlockSize
        padLen == IF mod # 0 THEN aesBlockSize - mod ELSE 0
    IN aesBlockSize + (srcLen + padLen + 1)

\* makeTrailer: the length of the trailer it returns for srcLen bytes
trailerLength(srcLen) ==
    LET mod == (srcLen + 1 + 1 + 12) % 4
        padLen == IF mod # 0 THEN 4 - mod ELSE 0
    IN padLen + 2 + 12

\* what is written after the RMCP header: the flags and the payload length
\* of the session header, the request as marshalled, whether it went out as
\* ciphertext, the length of req.PayloadBytes and of the trailer in it
Wire(e, a, pl, plain, pb, t) ==
    [encrypted |-> e, authenticated |-> a, payloadLength |-> pl, plain |-> plain,
     payloadBytes |-> pb, trailer |-> t]

NoWire == Wire(FALSE, FALSE, 0, <<>>, 0, 0)

\* a SendPacket that leaves the payload length of the plaintext in the header
SendPacketRequestStaleLength(active, suite, b) ==
    LET conf == active /\ requiredConfidentiality(suite)
        integ == active /\ requiredIntegrity(suite)
        len == IF conf THEN encryptedLength(Len(b)) ELSE Len(b)
        trailer == IF integ THEN trailerLength(sessionHeaderV2_0Size + len) ELSE 0
    IN Wire(conf, integ, Len(b), b, len + trailer, trailer)

\* SendPacket up to sendMessage, for the request marshalled as b
SendPacketRequest(active, suite, b) ==
    LET conf == active /\ requiredConfidentiality(suite)
        integ == active /\ requiredIntegrity(suite)
        \* SetPayloadLength(len(b)) after Marshal and after encryptPayload
        len == IF conf THEN encryptedLength(Len(b)) ELSE Len(b)
        \* the trailer is made from the marshalled header and the payload
        \* and appended to req.PayloadBytes
        trailer == IF integ THEN trailerLength(sessionHeaderV2_0Size + len) ELSE 0
    IN Wire(conf, integ, len, b, len + trailer, trailer)

\* the result of ipmiResponseMessage.Unmarshal: its error and the fields
Parsed(e, f) == [err |-> e, rsm |-> f]

\* ipmiResponseMessage.Unmarshal
ipmiResponseMessageUnmarshal(b) ==
    IF Len(b) < ipmiResponseMessageMinSize
        THEN Parsed(MessageError("Invalid IPMI response size"), <<>>)
    ELSE IF checksum(SubSeq(b, 1, 2)) # b[3]
        THEN Parsed(MessageError("Invalid IPMI response 1st checksum"), <<>>)
    ELSE IF checksum(SubSeq(b, 4, Len(b) - 1)) # b[Len(b)]
        THEN Parsed(MessageError("Invalid IPMI response 2nd checksum"), <<>>)
    ELSE Parsed(NoErr, << [ RqAddr |-> b[1], NetFnRsRUN |-> b[2], RsAddr |-> b[4],
                            RqSeq |-> b[5], Code |-> b[6], CompletionCode |-> b[7],
                            Data |-> SubSeq(b, 8, Len(b) - 1) ] >>)

\* the response a BMC gives to request m with completion code cc and k data
\* bytes
BmcResponse(m, cc, k) ==
    LET head == <<m.RqAddr, NewNetFnRsLUN(m.Command.netFn + 1, 0)>>
        body == <<m.RsAddr, m.RqSeq, m.Command.code, cc>> \o [i \in 1..k |-> 40 + i]
    IN head \o <<(256 - Sum(head)) % 256>> \o body \o <<(256 - Sum(body)) % 256>>

\* the payloads that may come back: the BMC's response, the same with one
\* byte changed (i), with two bytes of the header changed so that their sum
\* stays (j), or cut short
Payloads(m) ==
    UNION { LET r == BmcResponse(m, cc, k)
            IN {r, SubSeq(r, 1, 7), [r EXCEPT ![1] = (@ + 1) % 256, ![2] = (@ + 255) % 256]}
               \cup { [r EXCEPT ![i] = (@ + 1) % 256] : i \in 1..Len(r) }
            : cc \in {CompletionOK, CompletionInvalidCommand},
              k \in {0, m.Command.min, MaxData} }

\* SendPacket marshals the request and protects it
MsgSend ==
    /\ msg.pc = "request"
    /\ msg' = [msg EXCEPT !.pc = "sent",
                          !.wire = SendPacketRequest(msg.active, msg.suite,
                                                     ipmiRequestMessageMarshal(msg.req))]
    /\ UNCHANGED <<sessionVars, argVars, sdrVars, sel>>

\* the first attempt of execute()'s retry() receives payload r: Unmarshal,
\* retry(), then the completion code and the command's Unmarshal
MsgReceive ==
    /\ msg.pc = "sent"
    /\ \E r \in Payloads(msg.req) :
        LET u == ipmiResponseMessageUnmarshal(r)
            e == IF u.err # NoErr THEN u.err
                 ELSE IF u.rsm[1].CompletionCode # CompletionOK
                    THEN CommandError(u.rsm[1].CompletionCode, msg.req.Command.name)
                 ELSE IF Len(u.rsm[1].Data) < msg.req.Command.min
                    THEN MessageError("Invalid Response size")
                 ELSE NoErr
        IN msg' = [msg EXCEPT !.pc = "done", !.resp = r, !.rsm = u.rsm, !.err = e,
                              !.again = retryContinues(msg.retries, 0, u.err),
                              !.fields = IF e = NoErr THEN <<u.rsm[1].Data>> ELSE <<>>]
    /\ UNCHANGED <<sessionVars, argVars, sdrVars, sel>>

\* the message execute() builds for command c with rqSeq q in a session that
\* is active or not; addr is <<bmcSlaveAddress, remoteSWID>>
MsgCall(active, suite, retries, c, q, addr) ==
    [ pc |-> "request", active |-> active, suite |-> suite, retries |-> retries,
      req |-> [RsAddr |-> addr[1], RqAddr |-> addr[2], RqSeq |-> (q * 4) % 256, Command |-> c],
      wire |-> NoWire, resp |-> <<>>, rsm |-> <<>>, err |-> NoErr, again |-> FALSE,
      fields |-> <<>> ]

\* no message is followed in this behaviour
MsgParked == msg = [pc |-> "parked"]

----------------------------------------------------------------------------
(* The client after NewClient *)

SessionIdle ==
    /\ conn = NoConn
    /\ id = 0
    /\ sequence = Zero32
    /\ rqSeq = 0
    /\ k1 = NilKey
    /\ k2 = NilKey
    /\ socks = {}
    /\ dials = 0
    /\ stack = <<>>
    /\ pc = "idle"
    /\ try = 0
    /\ cmd = NoCmd
    /\ hs = NoHs
    /\ api = "none"
    /\ reopen = FALSE
    /\ ret = NoErr
    /\ res = NoRes
    /\ last = NoErr
    /\ rsm = <<>>
    /\ txn = 0
    /\ lastTx = NoTx
    /\ sent = {}

Init ==
    /\ args \in [ Retries : 0..MaxRetries, CipherSuiteID : 0..3,
                  PrivilegeLevel : PrivilegeLevels ]
    /\ SessionIdle
    /\ rx = NotRecorded
    /\ MsgParked
    /\ ArgsParked
    /\ SdrParked
    /\ SelParked

Next ==
    \/ CallOpen
    \/ CallClose
    \/ \E c \in UserCommands : CallExecute(c)
    \/ CallPing
    \/ Dial
    \/ Cac
    \/ OpenReq
    \/ Rakp1
    \/ Rakp3
    \/ Exec
    \/ PingDial
    \/ PingTx

Spec == Init /\ [][Next]_vars

\* the privilege levels of the clients whose handshake is followed
HandshakeLevels == {PrivilegeUser, PrivilegeOperator, PrivilegeAdministrator}

\* the client after NewClient, in a behaviour that records in rx what every
\* attempt meets
InitOpen ==
    /\ args \in [ Retries : 0..MaxRetries, CipherSuiteID : 0..3,
                  PrivilegeLevel : HandshakeLevels ]
    /\ SessionIdle
    /\ rx = NoRx
    /\ ArgsParked
    /\ SdrParked
    /\ SelParked
    /\ MsgParked

\* the first call on the new client
FirstOpen ==
    /\ api = "none"
    /\ CallOpen

FirstExecute(c) ==
    /\ api = "none"
    /\ CallExecute(c)

\* one Open or one Execute is called
NextOpen ==
    \/ FirstOpen
    \/ \E c \in UserCommands : FirstExecute(c)
    \/ Dial
    \/ Cac
    \/ OpenReq
    \/ Rakp1
    \/ Rakp3
    \/ Exec

SpecOpen == InitOpen /\ [][NextOpen]_vars

\* no session in this behaviour
SessionParked ==
    /\ args = [Retries |-> 0, CipherSuiteID |-> 0, PrivilegeLevel |-> PrivilegeAdministrator]
    /\ SessionIdle
    /\ rx = NotRecorded

InitArgs ==
    /\ arguments \in ArgumentsSet
    /\ client = <<>>
    /\ newErr = NoErr
    /\ newPc = "call"
    /\ SessionParked
    /\ SdrParked
    /\ SelParked
    /\ MsgParked

NextArgs == NewClient

SpecArgs == InitArgs /\ [][NextArgs]_vars

\* c.sdrReadingBytes when SDRGetRecordsRepo is called: the default NewClient
\* gives it, or what an earlier enumeration left
sdrReadingBytesStart == {sdrDefaultReadBytes, 16}

\* SDRGetRecordsRepo(c, filter) is called once
InitSDR ==
    /\ repo \in Repos
    /\ bmcReservation = 0
    /\ getSDRs = 0
    /\ faultAt \in 0..MaxFaultAt
    /\ faultCode \in (IF faultAt = 0 THEN {CompletionOK} ELSE FaultCodes)
    /\ bmcMaxRead \in {sdrHeaderSize, 16, 255}
    /\ bmcMaxData \in {7, 255}
    /\ bmcVersion \in {81, 3}
    /\ sdrReadingBytes \in sdrReadingBytesStart
    /\ filter \in Filters
    /\ sensors = <<>>
    /\ reservation = 0
    /\ header = NoHeader
    /\ nextID = 0
    /\ recordID = sdrFirstID
    /\ n = 0
    /\ buf = <<>>
    /\ spc = "info"
    /\ serr = NoErr
    /\ lastReq = NoRequest
    /\ lastCc = CompletionOK
    /\ SessionParked
    /\ ArgsParked
    /\ SelParked
    /\ MsgParked

NextSDR ==
    \/ SdrGetInfo
    \/ SdrReserve
    \/ SdrGetHeader
    \/ SdrGetChunk

SpecSDR == InitSDR /\ [][NextSDR]_vars

\* a client on which SDRGetRecordsRepo has not been called yet
InitSDRCall ==
    /\ repo = <<>>
    /\ bmcReservation = 0
    /\ getSDRs = 0
    /\ faultAt = 0
    /\ faultCode = CompletionOK
    /\ bmcMaxRead = 255
    /\ bmcMaxData = 255
    /\ bmcVersion = 81
    /\ sdrReadingBytes = sdrDefaultReadBytes
    /\ filter = [nil |-> TRUE, types |-> {}]
    /\ sensors = <<>>
    /\ reservation = 0
    /\ header = NoHeader
    /\ nextID = 0
    /\ recordID = sdrFirstID
    /\ n = 0
    /\ buf = <<>>
    /\ spc = "call"
    /\ serr = NoErr
    /\ lastReq = NoRequest
    /\ lastCc = CompletionOK
    /\ SessionParked
    /\ ArgsParked
    /\ SelParked
    /\ MsgParked

\* SDRGetRecordsRepo(c, filter) is called, against any of the BMCs of InitSDR
SdrCall ==
    /\ spc = "call"
    /\ repo' \in Repos
    /\ faultAt' \in 0..MaxFaultAt
    /\ faultCode' \in (IF faultAt' = 0 THEN {CompletionOK} ELSE FaultCodes)
    /\ bmcMaxRead' \in {sdrHeaderSize, 16, 255}
    /\ bmcMaxData' \in {7, 255}
    /\ bmcVersion' \in {81, 3}
    /\ sdrReadingBytes' \in sdrReadingBytesStart
    /\ filter' \in Filters
    /\ spc' = "info"
    /\ UNCHANGED <<bmcReservation, getSDRs, sensors, reservation, header, nextID,
                   recordID, n, buf, serr, lastReq, lastCc>>
    /\ UNCHANGED <<sessionVars, argVars, sel, msg>>

NextSDRLive ==
    \/ SdrCall
    \/ SdrGetInfo
    \/ SdrReserve
    \/ SdrGetHeader
    \/ SdrGetChunk

\* what every step of the enumeration changes
sdrProgress == <<spc, getSDRs, bmcReservation>>

\* some step of the enumeration: each of the five actions is enabled exactly
\* where spc names it, and each changes sdrProgress in one of these ways
SdrRuns ==
    /\ spc # "done"
    /\ spc' \in {"info", "reserve", "header", "record", "done"}
    /\ getSDRs' \in {getSDRs, getSDRs + 1}
    /\ bmcReservation' \in {bmcReservation, (bmcReservation + 1) % 65536}

\* SDRGetRecordsRepo runs on until it returns: every Execute it calls
\* returns, and the code between two of them is sequential
SpecSDRLive == InitSDRCall /\ [][NextSDRLive]_vars /\ WF_sdrProgress(SdrRuns)

\* SELGetEntries(c, offset, num) is called once
InitSEL ==
    /\ sel \in { SelCall(f, d, e, v, fa, o, m) :
                    f \in {1, 5}, d \in {1, 3}, e \in 0..MaxEntries, v \in {81, 2, 1},
                    fa \in 0..MaxSelFault, o \in -1..MaxEntries, m \in -1..(MaxEntries + 1) }
    /\ SessionParked
    /\ ArgsParked
    /\ SdrParked
    /\ MsgParked

NextSEL ==
    \/ SelGetInfo
    \/ SelGetFirst
    \/ SelReserve
    \/ SelGetEntry

SpecSEL == InitSEL /\ [][NextSEL]_vars

\* execute() builds one message and receives one response
InitMsg ==
    /\ msg \in { MsgCall(a, su, r, c, q, ad) :
                    a \in BOOLEAN, su \in 0..3, r \in 0..MaxRetries, c \in MsgCommands,
                    q \in {0, 63}, ad \in {<<32, 129>>} }
    /\ SessionParked
    /\ ArgsParked
    /\ SdrParked
    /\ SelParked

NextMsg ==
    \/ MsgSend
    \/ MsgReceive

SpecMsg == InitMsg /\ [][NextMsg]_vars

----------------------------------------------------------------------------
(* The counters of a session: requests built one after the other *)

\* most requests built
MaxRequests == 65

\* the values of sessionV2_0.sequence an active session starts from
SequenceStarts ==
    {Zero32, Uint32(0, 1), Uint32(0, 65535), Uint32(65535, 65534), MaxUint32}

\* openSession: s.id = osr.ManagedID
SessionActivated ==
    /\ pc = "seq"
    /\ id = 0
    /\ id' \in ManagedIDs \ {0}
    /\ k1' = ZeroKey
    /\ k2' = ZeroKey
    /\ UNCHANGED <<args, conn, sequence, rqSeq, socks, dials, stack, pc, try, cmd, hs, api,
                   reopen, ret, res, last, rsm, txn, lastTx, sent, rx>>
    /\ UNCHANGED <<argVars, sdrVars, sel, msg>>

\* execute: the request it builds with s.Header(payloadTypeIPMI) and
\* s.NextRqSeq(); txn counts the requests
BuildRequest ==
    /\ pc = "seq"
    /\ txn < MaxRequests
    /\ LET m0 == [Cur EXCEPT !.sequence = NextSequence(Cur), !.rqSeq = NextRqSeq(@)]
       IN /\ sequence' = m0.sequence
          /\ rqSeq' = m0.rqSeq
          /\ lastTx' = PacketV2_0(m0, "IPMI", "GetDeviceID", 0, rqSeq * 4)
    /\ txn' = txn + 1
    /\ UNCHANGED <<args, conn, id, k1, k2, socks, dials, stack, pc, try, cmd, hs, api,
                   reopen, ret, res, last, rsm, sent, rx>>
    /\ UNCHANGED <<argVars, sdrVars, sel, msg>>

\* a client on an open socket: before the session is activated, or in an
\* active session that has sent some packets already
InitSeq ==
    /\ args = [Retries |-> 0, CipherSuiteID |-> 0, PrivilegeLevel |-> PrivilegeUser]
    /\ conn = 1
    /\ socks = {1}
    /\ dials = 1
    /\ \/ id = 0 /\ sequence = Zero32 /\ k1 = NilKey /\ k2 = NilKey
       \/ id \in ManagedIDs \ {0} /\ sequence \in SequenceStarts /\ k1 = ZeroKey /\ k2 = ZeroKey
    /\ rqSeq = 0
    /\ stack = <<>>
    /\ pc = "seq"
    /\ try = 0
    /\ cmd = NoCmd
    /\ hs = NoHs
    /\ api = "none"
    /\ reopen = FALSE
    /\ ret = NoErr
    /\ res = NoRes
    /\ last = NoErr
    /\ rsm = <<>>
    /\ txn = 0
    /\ lastTx = NoTx
    /\ sent = {}
    /\ rx = NotRecorded
    /\ ArgsParked
    /\ SdrParked
    /\ SelParked
    /\ MsgParked

NextSeq ==
    \/ SessionActivated
    \/ BuildRequest

SpecSeq == InitSeq /\ [][NextSeq]_vars

----------------------------------------------------------------------------
(* The packets of an active session on the wire: one attempt of the        *)
(* closure execute() hands to retry(), with sendMessage returning before,  *)
(* at or after conn.Write                                                  *)

\* what the socket has carried in the active session: how many packets were
\* written and the sequence number of the last one
Wired(w, s) == [pc |-> "wire", written |-> w, seq |-> s]

\* most attempts followed on the wire
MaxAttempts == 6

\* where sendMessage returns: the error of SetDeadline, the error of Write,
\* or after the datagram was written (whatever Read gives)
SendStages == {"deadline", "write", "written"}

\* one attempt of execute(): s.Header(payloadTypeIPMI), s.NextRqSeq() and
\* SendPacket up to the end of conn.Write
ExecuteAttempt ==
    /\ pc = "seq"
    /\ txn < MaxAttempts
    /\ \E stage \in SendStages :
        LET m0 == [Cur EXCEPT !.sequence = NextSequence(Cur), !.rqSeq = NextRqSeq(@)]
            tx == PacketV2_0(m0, "IPMI", "GetDeviceID", 0, rqSeq * 4)
        IN /\ sequence' = m0.sequence
           /\ rqSeq' = m0.rqSeq
           /\ lastTx' = tx
           /\ msg' = IF stage = "written" /\ ActiveSession(m0)
                     THEN Wired(msg.written + 1, tx.seq)
                     ELSE msg
    /\ txn' = txn + 1
    /\ UNCHANGED <<args, conn, id, k1, k2, socks, dials, stack, pc, try, cmd, hs, api,
                   reopen, ret, res, last, rsm, sent, rx>>
    /\ UNCHANGED <<argVars, sdrVars, sel>>

\* a client on an open socket: before the session is activated, or in an
\* active session whose last packet carried the value of the counter
InitWire ==
    /\ args = [Retries |-> 0, CipherSuiteID |-> 0, PrivilegeLevel |-> PrivilegeUser]
    /\ conn = 1
    /\ socks = {1}
    /\ dials = 1
    /\ \/ id = 0 /\ sequence = Zero32 /\ k1 = NilKey /\ k2 = NilKey
       \/ id \in ManagedIDs \ {0} /\ sequence \in SequenceStarts /\ k1 = ZeroKey /\ k2 = ZeroKey
    /\ msg = IF sequence = Zero32 THEN Wired(0, Zero32) ELSE Wired(1, sequence)
    /\ rqSeq = 0
    /\ stack = <<>>
    /\ pc = "seq"
    /\ try = 0
    /\ cmd = NoCmd
    /\ hs = NoHs
    /\ api = "none"
    /\ reopen = FALSE
    /\ ret = NoErr
    /\ res = NoRes
    /\ last = NoErr
    /\ rsm = <<>>
    /\ txn = 0
    /\ lastTx = NoTx
    /\ sent = {}
    /\ rx = NotRecorded
    /\ ArgsParked
    /\ SdrParked
    /\ SelParked

NextWire ==
    \/ SessionActivated
    \/ ExecuteAttempt

SpecWire == InitWire /\ [][NextWire]_vars

----------------------------------------------------------------------------
(* Execute on an open socket against a BMC that answers every request      *)
(* it receives, with answers that may arrive after the deadline of the     *)
(* attempt that asked: execute(), retry() and sendMessage on one socket    *)

\* most Execute calls in one behaviour
MaxCalls == 3

\* the BMC's response to the request of invocation i for command c: a well
\* formed IPMI response with completion code OK and the data of c
Reply(i, c) ==
    [inv |-> i, name |-> c.name, ptype |-> "IPMI", cc |-> CompletionOK,
     dlen |-> cmdMinLength(c.name)]

\* Execute(c): the first attempt writes its request, which the BMC will answer
LateCall(c) ==
    /\ msg.pc = "idle"
    /\ msg.inv < MaxCalls
    /\ msg' = [msg EXCEPT !.pc = "read", !.inv = @ + 1, !.cmd = c, !.try = 0,
                          !.air = Append(@, Reply(msg.inv + 1, c)),
                          !.got = <<>>, !.err = NoErr]
    /\ UNCHANGED <<sessionVars, argVars, sdrVars, sel>>

\* a response reaches the receive buffer of the socket
LateArrive ==
    /\ msg.pc \in {"idle", "read"}
    /\ msg.air # <<>>
    /\ msg' = [msg EXCEPT !.air = Tail(@), !.sock = Append(@, Head(msg.air))]
    /\ UNCHANGED <<sessionVars, argVars, sdrVars, sel>>

\* conn.Read returns the first datagram of the receive buffer; execute()
\* checks its completion code and the command unmarshals its data
LateRead ==
    /\ msg.pc = "read"
    /\ msg.sock # <<>>
    /\ LET r == Head(msg.sock)
           e == executeResult(msg.cmd, r)
       IN msg' = [msg EXCEPT !.pc = "idle", !.sock = Tail(@), !.err = e,
                             !.got = IF e = NoErr THEN <<r>> ELSE <<>>]
    /\ UNCHANGED <<sessionVars, argVars, sdrVars, sel>>

\* conn.Read meets the deadline with nothing in the receive buffer: retry()
\* runs the closure again, which writes the request again, or gives up
LateTimeout ==
    /\ msg.pc = "read"
    /\ msg.sock = <<>>
    /\ msg' = IF retryContinues(msg.retries, msg.try, NetError(TRUE))
              THEN [msg EXCEPT !.try = @ + 1,
                               !.air = Append(@, Reply(msg.inv, msg.cmd))]
              ELSE [msg EXCEPT !.pc = "idle", !.err = NetError(TRUE)]
    /\ UNCHANGED <<sessionVars, argVars, sdrVars, sel>>

\* a client whose socket has carried nothing yet
InitLate ==
    /\ \E r \in 0..MaxRetries :
        msg = [pc |-> "idle", retries |-> r, inv |-> 0, cmd |-> NoCmd, try |-> 0,
               air |-> <<>>, sock |-> <<>>, got |-> <<>>, err |-> NoErr]
    /\ SessionParked
    /\ ArgsParked
    /\ SdrParked
    /\ SelParked

NextLate ==
    \/ \E c \in UserCommands : LateCall(c)
    \/ LateArrive
    \/ LateRead
    \/ LateTimeout

SpecLate == InitLate /\ [][NextLate]_vars

----------------------------------------------------------------------------
(* CompletionCode.String applied to every value of a byte                  *)

\* the last constant of the const block: iota is 24 on its line
CompletionIllegalCommandDisabled == 216

\* the strings of the cases CompletionNodeBusy .. CompletionIllegalCommandDisabled
StandardErrorNames ==
    << "Node Busy",
       "Invalid Command",
       "Command invalid for given LUN",
       "Timeout",
       "Out of space",
       "Reservation Canceled or Invalid Reservation ID",
       "Request data truncated",
       "Request data length invalid",
       "Request data field length limit exceeded",
       "Parameter out of range",
       "Cannot return number of requested data bytes",
       "Requested Sensor, data, or record not present",
       "Invalid data field in Request",
       "Command illegal for specified sensor or record type",
       "Command response could not be provided",
       "Cannot execute duplicated request",
       "SDR Repository in update mode",
       "Device in firmware update mode",
       "BMC initialization or initialization agent in progress",
       "Destination unavailable",
       "Cannot execute command due to insufficient privilege level",
       "Command not supported in present state",
       "Command sub-function has been disabled or is unavailable" >>

HexDigits == <<"0", "1", "2", "3", "4", "5", "6", "7", "8", "9", "a", "b", "c", "d", "e", "f">>

\* fmt.Sprintf("0x%02x", uint8(c))
Hex02(c) == "0x" \o HexDigits[(c \div 16) + 1] \o HexDigits[(c % 16) + 1]

\* CompletionCode.String
CompletionCodeString(c) ==
    IF c = CompletionOK THEN "Command Completed Normally"
    ELSE IF c = CompletionUnspecifiedError THEN "Unspecified error"
    ELSE IF c \in CompletionNodeBusy..CompletionIllegalCommandDisabled
        THEN StandardErrorNames[c - CompletionNodeBusy + 1]
    ELSE Hex02(c)

\* String() is called on the code
RenderCode ==
    /\ msg.pc = "code"
    /\ msg' = [msg EXCEPT !.pc = "rendered", !.s = CompletionCodeString(msg.c)]
    /\ UNCHANGED <<sessionVars, argVars, sdrVars, sel>>

\* any completion code a response may carry
InitCode ==
    /\ \E c \in 0..255 : msg = [pc |-> "code", c |-> c, s |-> ""]
    /\ SessionParked
    /\ ArgsParked
    /\ SdrParked
    /\ SelParked

NextCode == RenderCode

SpecCode == InitCode /\ [][NextCode]_vars

----------------------------------------------------------------------------
(* encryptPayload / decryptPayload and makeTrailer / validateTrailer on    *)
(* byte strings.  AES-128 and HMAC-SHA1 are stood for by a keyed           *)
(* permutation of the bytes of a block and by a keyed position-weighted    *)
(* sum; padding, chaining, truncation and comparison are the code's.       *)

\* most bytes of a payload that is encrypted or authenticated
MaxPayload == 33

RECURSIVE Xor(_, _)
\* a ^ b on bytes
Xor(a, b) ==
    IF a = 0 /\ b = 0 THEN 0
    ELSE (((a % 2) + (b % 2)) % 2) + 2 * Xor(a \div 2, b \div 2)

\* block.Encrypt on one byte of a block: a permutation chosen by the key
blockEncrypt(k, b) == (b * 5 + k) % 256

\* block.Decrypt, its inverse (5 * 205 = 1 mod 256)
blockDecrypt(k, b) == ((b + 256 - k) * 205) % 256

RECURSIVE cbcEncrypt(_, _, _)
\* cipher.NewCBCEncrypter(block, iv).CryptBlocks: each block is combined
\* with the ciphertext block before it (the IV first) and encrypted
cbcEncrypt(k, prev, input) ==
    IF input = <<>> THEN <<>>
    ELSE LET blk == [j \in 1..aesBlockSize |-> blockEncrypt(k, Xor(input[j], prev[j]))]
         IN blk \o cbcEncrypt(k, blk, SubSeq(input, aesBlockSize + 1, Len(input)))

RECURSIVE cbcDecrypt(_, _, _)
\* cipher.NewCBCDecrypter(block, iv).CryptBlocks
cbcDecrypt(k, prev, input) ==
    IF input = <<>> THEN <<>>
    ELSE LET blk == SubSeq(input, 1, aesBlockSize)
         IN [j \in 1..aesBlockSize |-> Xor(blockDecrypt(k, blk[j]), prev[j])]
            \o cbcDecrypt(k, blk, SubSeq(input, aesBlockSize + 1, Len(input)))

\* an encryptPayload that pads the source without counting the length byte
encryptPayloadShortPad(source, k, iv) ==
    LET srcLen == Len(source)
        mod == srcLen % aesBlockSize
        padLen == IF mod # 0 THEN aesBlockSize - mod ELSE 0
        input == source \o [i \in 1..padLen |-> i] \o <<padLen>>
    IN iv \o cbcEncrypt(k, iv, SubSeq(input, 1, (Len(input) \div aesBlockSize) * aesBlockSize))

\* encryptPayload(src, key), rand.Read having filled the IV with iv
encryptPayload(source, k, iv) ==
    LET srcLen == Len(source)
        mod == (srcLen + 1) % aesBlockSize
        padLen == IF mod # 0 THEN aesBlockSize - mod ELSE 0
        input == source \o [i \in 1..padLen |-> i] \o <<padLen>>
    IN iv \o cbcEncrypt(k, iv, input)

\* what a function returns: its bytes, its error, or a run-time panic that
\* ends the program
Outcome(kind, bytes, e) == [kind |-> kind, bytes |-> bytes, err |-> e]

\* decryptPayload(src, key)
decryptPayload(source, k) ==
    IF Len(source) < aesBlockSize \/ Len(source) % aesBlockSize # 0
    THEN Outcome("error", <<>>, MessageError("Payload is not the specified length"))
    ELSE LET iv == SubSeq(source, 1, aesBlockSize)
             dst == cbcDecrypt(k, iv, SubSeq(source, aesBlockSize + 1, Len(source)))
         IN IF dst = <<>>
            THEN Outcome("panic", <<>>, NoErr)   \* dst[len(dst)-1], index out of range
            ELSE IF Len(dst) - dst[Len(dst)] - 1 < 0
            THEN Outcome("panic", <<>>, NoErr)   \* dst[:len(dst)-padLen-1], out of range
            ELSE Outcome("ok", SubSeq(dst, 1, Len(dst) - dst[Len(dst)] - 1), NoErr)

\* hmac.New(sha1.New, key) over d: a digest of 20 bytes that depends on the
\* key, on the length and on every byte and its position
hmacSHA1(k, d) ==
    [j \in 1..20 |->
        (Sum([i \in 1..Len(d) |-> (d[i] * (((i + j) % 255) + 1)) % 256]) + (k * j) + Len(d)) % 256]

\* makeTrailer(src, key)
makeTrailer(source, k) ==
    LET srcLen == Len(source)
        mod == (srcLen + 1 + 1 + 12) % 4
        padLen == IF mod # 0 THEN 4 - mod ELSE 0
        covered == source \o [i \in 1..padLen |-> 255] \o <<padLen, 7>>
    IN SubSeq(covered \o SubSeq(hmacSHA1(k, covered), 1, 12), srcLen + 1, Len(covered) + 12)

\* a validateTrailer that only looks at the length
validateTrailerLengthOnly(source, k) ==
    IF Len(source) < 12
    THEN MessageError("Payload does not contain auth code")
    ELSE NoErr

\* validateTrailer(src, key)
validateTrailer(source, k) ==
    IF Len(source) < 12
    THEN MessageError("Payload does not contain auth code")
    ELSE IF SubSeq(source, Len(source) - 11, Len(source))
            # SubSeq(hmacSHA1(k, SubSeq(source, 1, Len(source) - 12)), 1, 12)
    THEN MessageError("Received message with invalid authcode")
    ELSE NoErr

\* the byte strings protected: every length up to MaxPayload, two contents
Sources ==
    { [i \in 1..l |-> (i * m + 3) % 256] : l \in 0..MaxPayload, m \in {1, 37} }

\* the first 16 bytes of K2 and K1 as one number
CryptKeys == {7, 200}

\* what rand.Read may put in the IV
IVs == { [j \in 1..aesBlockSize |-> (j * m) % 256] : m \in {0, 11} }

\* encryptPayload is applied to the source
CryptEncrypt ==
    /\ msg.pc = "source"
    /\ \E iv \in IVs :
        msg' = [msg EXCEPT !.pc = "encrypted", !.out = encryptPayload(msg.source, msg.key, iv)]
    /\ UNCHANGED <<sessionVars, argVars, sdrVars, sel>>

\* decryptPayload is applied to what encryptPayload returned
CryptDecrypt ==
    /\ msg.pc = "encrypted"
    /\ msg' = [msg EXCEPT !.pc = "decrypted", !.back = decryptPayload(msg.out, msg.key)]
    /\ UNCHANGED <<sessionVars, argVars, sdrVars, sel>>

\* makeTrailer is applied to the source and its result appended
CryptSign ==
    /\ msg.pc = "source"
    /\ msg' = [msg EXCEPT !.pc = "signed",
                          !.out = msg.source \o makeTrailer(msg.source, msg.key)]
    /\ UNCHANGED <<sessionVars, argVars, sdrVars, sel>>

\* validateTrailer is applied to the signed bytes as they are (at = 0), with
\* byte number at changed, or under the other key
CryptVerify ==
    /\ msg.pc = "signed"
    /\ \E at \in 0..Len(msg.out), k \in CryptKeys :
        /\ (k # msg.key) => at = 0
        /\ LET got == IF at = 0 THEN msg.out
                      ELSE [msg.out EXCEPT ![at] = (@ + 1) % 256]
           IN msg' = [msg EXCEPT !.pc = "verified", !.at = at, !.vkey = k,
                                 !.verr = validateTrailer(got, k)]
    /\ UNCHANGED <<sessionVars, argVars, sdrVars, sel>>

InitCrypt ==
    /\ \E s \in Sources, k \in CryptKeys :
        msg = [pc |-> "source", source |-> s, key |-> k, out |-> <<>>,
               back |-> Outcome("none", <<>>, NoErr), at |-> 0, vkey |-> k, verr |-> NoErr]
    /\ SessionParked
    /\ ArgsParked
    /\ SdrParked
    /\ SelParked

NextCrypt ==
    \/ CryptEncrypt
    \/ CryptDecrypt
    \/ CryptSign
    \/ CryptVerify

SpecCrypt == InitCrypt /\ [][NextCrypt]_vars

----------------------------------------------------------------------------
(* The receive path: conn.Read in sendMessage, unmarshalMessage, and what  *)
(* SendPacket does with the packet it gets back, on datagrams as byte      *)
(* strings                                                                 *)

recvBufferSize == 2048
rmcpHeaderSize == 4
rmcpClassASF == 6
rmcpClassIPMI == 7
asfHeaderSize == 8
asfTypePong == 64
pongBodySize == 16
authTypeNone == 0
authTypeRMCPPlus == 6
sessionHeaderV1_5Size == 10
sessionHeaderV1_5SizeWithAuth == 26
payloadTypeIPMI == 0
payloadTypeRMCPOpenRes == 17
payloadTypeRAKP2 == 19
payloadTypeRAKP4 == 21

\* binary.LittleEndian.PutUint16 / PutUint32
LE16(v) == <<v % 256, v \div 256>>
LE32(v) == <<v % 256, (v \div 256) % 256, (v \div 65536) % 256, v \div 16777216>>

\* binary.LittleEndian.Uint16(b[at-1:]) / Uint32(b[at-1:])
LittleEndianUint16(b, at) == b[at] + 256 * b[at + 1]
LittleEndianUint32(b, at) ==
    b[at] + 256 * b[at + 1] + 65536 * b[at + 2] + 16777216 * b[at + 3]

\* payloadType.Pure, Encrypted and Authenticated
Pure(p) == p % 64
Encrypted(p) == p \div 128 = 1
Authenticated(p) == (p \div 64) % 2 = 1

\* what unmarshalMessage returns: the response and its error, or a run-time
\* panic; of an ipmiPacket the payload type and the id of its session
\* header and its PayloadBytes
Message(kind, e, response, p, sid, bytes) ==
    [kind |-> kind, err |-> e, response |-> response, payloadType |-> p,
     ID |-> sid, PayloadBytes |-> bytes]

MessageFailed(m) == Message("error", MessageError(m), "none", 0, 0, <<>>)

MessagePanic == Message("panic", NoErr, "none", 0, 0, <<>>)

\* rest[:plen] within the capacity of the receive buffer: the bytes after
\* those conn.Read wrote are the zeros make() left there
Reslice(rest, plen) == [i \in 1..plen |-> IF i <= Len(rest) THEN rest[i] ELSE 0]

\* unmarshalMessage(buf), buf being the first Len(b) bytes of a buffer of
\* recvBufferSize bytes
unmarshalMessage(b) ==
    IF Len(b) < rmcpHeaderSize THEN MessageFailed("Invalid RMCP header size")
    ELSE LET class == b[4]
             rest == SubSeq(b, rmcpHeaderSize + 1, Len(b))
         IN IF class = rmcpClassASF
            THEN IF Len(rest) < asfHeaderSize
                    THEN MessageFailed("Invalid ASF header size")
                 ELSE IF rest[5] # asfTypePong
                    THEN MessageFailed("Unknown ASF message type")
                 ELSE IF Len(rest) - asfHeaderSize < pongBodySize
                    THEN MessageFailed("Invalid Pong body size")
                 ELSE Message("ok", NoErr, "pong", 0, 0, <<>>)
            ELSE IF class = rmcpClassIPMI
            THEN IF rest = <<>>
                    THEN MessagePanic     \* rest[0], index out of range
                 ELSE LET v2 == rest[1] = authTypeRMCPPlus
                          size == IF v2 THEN sessionHeaderV2_0Size
                                  ELSE IF rest[1] = authTypeNone THEN sessionHeaderV1_5Size
                                  ELSE sessionHeaderV1_5SizeWithAuth
                      IN IF Len(rest) < size
                         THEN MessageFailed(IF v2 THEN "Invalid IPMI 2.0 session header size"
                                            ELSE "Invalid IPMI 1.5 session header size")
                         ELSE LET p == IF v2 THEN rest[2] ELSE payloadTypeIPMI
                                  sid == LittleEndianUint32(rest, IF v2 THEN 3 ELSE 6)
                                  plen == IF v2 THEN LittleEndianUint16(rest, 11) ELSE rest[size]
                                  body == SubSeq(rest, size + 1, Len(rest))
                                  capacity == recvBufferSize - rmcpHeaderSize - size
                                  response ==
                                      CASE Pure(p) = payloadTypeIPMI -> "ipmi"
                                        [] Pure(p) = payloadTypeRMCPOpenRes -> "openres"
                                        [] Pure(p) = payloadTypeRAKP2 -> "rakp2"
                                        [] Pure(p) = payloadTypeRAKP4 -> "rakp4"
                                        [] OTHER -> "none"
                              IN IF response = "none"
                                    THEN MessageFailed("Unknown IPMI payload type")
                                 ELSE IF plen > capacity
                                    THEN MessagePanic   \* rest[:plen], out of range
                                 ELSE Message("ok", NoErr, response, p, sid,
                                              Reslice(body, plen))
            ELSE MessageFailed("Unknown RMCP class")

\* SendPacket after sendMessage returned the message m unmarshalled from the
\* bytes b: the session id, the trailer, the decryption and the response's
\* Unmarshal
SendPacketResponse(active, suite, key1, key2, b, m) ==
    IF m.response = "pong"
        THEN Outcome("error", <<>>, MessageError("Received an unexpected message (IPMI)"))
    ELSE IF active /\ m.ID # consoleID
        THEN Outcome("error", <<>>, MessageError("Mismatch console session ID"))
    ELSE IF active /\ requiredIntegrity(suite) /\ ~Authenticated(m.payloadType)
        THEN Outcome("error", <<>>, MessageError("Response message is not authenticated"))
    ELSE IF /\ active
            /\ requiredIntegrity(suite)
            /\ validateTrailer(SubSeq(b, rmcpHeaderSize + 1, Len(b)), key1) # NoErr
        THEN Outcome("error", <<>>,
                     validateTrailer(SubSeq(b, rmcpHeaderSize + 1, Len(b)), key1))
    ELSE IF active /\ requiredConfidentiality(suite) /\ ~Encrypted(m.payloadType)
        THEN Outcome("error", <<>>, MessageError("Response message is not encrypted"))
    ELSE LET d == IF active /\ requiredConfidentiality(suite)
                     THEN decryptPayload(m.PayloadBytes, key2)
                  ELSE Outcome("ok", m.PayloadBytes, NoErr)
         IN IF d.kind # "ok" THEN d
            \* openSessionResponse and the RAKP messages pad a short buffer
            \* with zeros; ipmiResponseMessage checks size and checksums
            ELSE IF m.response = "ipmi" /\ ipmiResponseMessageUnmarshal(d.bytes).err # NoErr
                THEN Outcome("error", <<>>, ipmiResponseMessageUnmarshal(d.bytes).err)
            ELSE d

\* the sessions that receive: active or not, the cipher suite and the keys
RecvSessions ==
    { [active |-> a, suite |-> c, key1 |-> 7, key2 |-> 200] :
        a \in BOOLEAN, c \in {0, 2, 3} }

\* the request the responses answer
RecvRequest ==
    [RsAddr |-> 32, RqAddr |-> 129, RqSeq |-> 4,
     Command |-> CHOOSE c \in MsgCommands : c.name = "GetPOHCounter"]

\* a datagram and how it was made
ReadDatagram(shape, b) == [shape |-> shape, bytes |-> b]

\* an RMCP+ packet of the BMC for a session: the payload as given, the
\* payload length as declared, the trailer over header and payload
BmcPacket(s, payload, declared) ==
    LET integ == s.active /\ requiredIntegrity(s.suite)
        conf == s.active /\ requiredConfidentiality(s.suite)
        p == payloadTypeIPMI + (IF conf THEN 128 ELSE 0) + (IF integ THEN 64 ELSE 0)
        head == <<authTypeRMCPPlus, p>> \o LE32(consoleID) \o LE32(1) \o LE16(declared)
    IN <<6, 0, 255, rmcpClassIPMI>> \o head \o payload
       \o (IF integ THEN makeTrailer(head \o payload, s.key1) ELSE <<>>)

\* the payload of a response with k data bytes as the BMC sends it
BmcPayload(s, k) ==
    IF s.active /\ requiredConfidentiality(s.suite)
    THEN encryptPayload(BmcResponse(RecvRequest, CompletionOK, k), s.key2,
                        [j \in 1..aesBlockSize |-> (j * 11) % 256])
    ELSE BmcResponse(RecvRequest, CompletionOK, k)

\* an IPMI v1.5 packet without authentication, and a pong
BmcPacketV1_5(payload) ==
    <<6, 0, 255, rmcpClassIPMI, authTypeNone>> \o LE32(0) \o LE32(0)
    \o <<Len(payload)>> \o payload

BmcPong ==
    <<6, 0, 255, rmcpClassASF, 0, 0, 17, 190, asfTypePong, 0, 0, pongBodySize>>
    \o [i \in 1..pongBodySize |-> 0]

\* every proper prefix of a datagram
Prefixes(b) == { SubSeq(b, 1, j) : j \in 0..(Len(b) - 1) }

\* what conn.Read may deliver in session s: the packets of the BMC whole,
\* cut short, declaring more payload than they carry, and, where payloads
\* are encrypted, a payload of the IV alone or one whose plaintext ends in
\* a pad length beyond its size
Datagrams(s) ==
    LET whole == { BmcPacket(s, BmcPayload(s, k), Len(BmcPayload(s, k))) : k \in {0, MaxData} }
                 \cup {BmcPacketV1_5(BmcResponse(RecvRequest, CompletionOK, 0)), BmcPong}
        iv == [j \in 1..aesBlockSize |-> (j * 11) % 256]
    IN { ReadDatagram("whole", b) : b \in whole }
       \cup { ReadDatagram("truncated", b) : b \in UNION { Prefixes(w) : w \in whole } }
       \cup { ReadDatagram("overdeclared", BmcPacket(s, BmcPayload(s, 0), declared))
                : declared \in { Len(BmcPayload(s, 0)) + 3,
                                 recvBufferSize - rmcpHeaderSize - sessionHeaderV2_0Size + 1,
                                 65535 } }
       \cup (IF s.active /\ requiredConfidentiality(s.suite)
             THEN { ReadDatagram("ivonly", BmcPacket(s, iv, aesBlockSize)),
                    ReadDatagram("badpad",
                             BmcPacket(s, iv \o cbcEncrypt(s.key2, iv,
                                                 [j \in 1..aesBlockSize |-> 200]),
                                       2 * aesBlockSize)) }
             ELSE {})

\* conn.Read fills the buffer with a datagram, or fails
RecvRead ==
    /\ msg.pc = "reading"
    /\ \/ \E d \in Datagrams(msg.session) :
            msg' = [msg EXCEPT !.pc = "read", !.shape = d.shape, !.datagram = d.bytes]
       \/ \E to \in BOOLEAN :
            msg' = [msg EXCEPT !.pc = "returned",
                               !.result = Outcome("error", <<>>, NetError(to))]
    /\ UNCHANGED <<sessionVars, argVars, sdrVars, sel>>

\* sendMessage hands buf[:n] to unmarshalMessage and returns what it gives
RecvUnmarshal ==
    /\ msg.pc = "read"
    /\ LET m == unmarshalMessage(msg.datagram)
       IN msg' = [msg EXCEPT !.pc = CASE m.kind = "ok" -> "message"
                                      [] m.kind = "error" -> "returned"
                                      [] OTHER -> "aborted",
                             !.message = m,
                             !.result = IF m.kind = "ok" THEN @
                                        ELSE Outcome(m.kind, <<>>, m.err)]
    /\ UNCHANGED <<sessionVars, argVars, sdrVars, sel>>

\* SendPacket checks and opens the packet and unmarshals the response
RecvUnprotect ==
    /\ msg.pc = "message"
    /\ LET r == SendPacketResponse(msg.session.active, msg.session.suite,
                                   msg.session.key1, msg.session.key2,
                                   msg.datagram, msg.message)
       IN msg' = [msg EXCEPT !.pc = IF r.kind = "panic" THEN "aborted" ELSE "returned",
                             !.result = r]
    /\ UNCHANGED <<sessionVars, argVars, sdrVars, sel>>

InitRecv ==
    /\ \E s \in RecvSessions :
        msg = [pc |-> "reading", session |-> s, shape |-> "none", datagram |-> <<>>,
               message |-> Message("none", NoErr, "none", 0, 0, <<>>),
               result |-> Outcome("none", <<>>, NoErr)]
    /\ SessionParked
    /\ ArgsParked
    /\ SdrParked
    /\ SelParked

NextRecv ==
    \/ RecvRead
    \/ RecvUnmarshal
    \/ RecvUnprotect

SpecRecv == InitRecv /\ [][NextRecv]_vars

----------------------------------------------------------------------------
(* Properties of the session *)

\* the positions at which a retry() is running
Exchanges == {"dial", "cac1", "cac2", "openreq", "rakp1", "rakp3", "exec"}

IsTimeout(e) == e.type = "net" /\ e.timeout

\* C1: Open on a client whose socket is already open returns nil at once,
\* writes no packet, and leaves the session id, the sequence number, rqSeq,
\* the keys and the socket as they were.
C1_OpenIsIdempotent ==
    [][ (pc = "idle" /\ api' = "Open" /\ conn # NoConn)
        => /\ pc' = "idle"
           /\ ret' = NoErr
           /\ sent' = {}
           /\ lastTx' = NoTx
           /\ UNCHANGED <<conn, id, sequence, rqSeq, k1, k2, socks, dials>> ]_vars

\* an Open of an active session has returned nil without writing a packet
C1_Witness ==
    /\ api = "Open"
    /\ pc = "idle"
    /\ ret = NoErr
    /\ lastTx = NoTx
    /\ id > 0
    /\ conn \in socks

\* C2: Execute on a client without a socket first runs Open (it dials); the
\* caller's command is written only by an Execute whose Open has returned
\* nil; when the Open fails, Execute returns the Open's error and the
\* command has not been written.
C2_ExecuteOpensFirst ==
    [][ /\ (pc = "idle" /\ api' = "Execute" /\ conn = NoConn)
           => (pc' = "dial" /\ sent' = {})
        /\ (lastTx' # lastTx /\ lastTx'.cmd \in UserCommandNames)
           => (pc = "exec" /\ Len(stack) = 1 /\ Top(Cur).fn = "Execute" /\ conn # NoConn)
        /\ (/\ Len(stack) >= 2
            /\ stack[1].fn = "Execute"
            /\ stack[1].cmd \in UserCommands
            /\ stack[2].fn = "Open"
            /\ pc' = "idle")
           => /\ ret' # NoErr
              /\ stack[2].err # NoErr => ret' = stack[2].err
              /\ pc = "dial" => ret' = last'
              /\ sent' \cap UserCommandNames = {}
              /\ res' = NoRes ]_vars

\* an Execute has returned the error of an Open that failed at RAKP 2
C2_Witness ==
    /\ api = "Execute"
    /\ pc = "idle"
    /\ ret = MessageError("RAKP 2 HMAC is invalid")
    /\ "RAKP1" \in sent
    /\ sent \cap UserCommandNames = {}
    /\ conn = NoConn

\* C3: Close of an active session sends Close Session with the session's
\* managed id and, whether or not that succeeds, returns with id, sequence,
\* rqSeq and keys cleared and the socket closed; Close of an inactive
\* session sends nothing and closes the socket.
C3_CloseAlwaysClears ==
    [][ /\ (pc = "idle" /\ api' = "Close" /\ ~ActiveSession(Cur))
           => /\ pc' = "idle"
              /\ ret' = NoErr
              /\ sent' = {}
              /\ conn' = NoConn
              /\ socks' = socks \ {conn}
        /\ (pc = "idle" /\ api' = "Close" /\ ActiveSession(Cur))
           => (pc' = "exec" /\ cmd' = newCloseSessionCommand(id))
        /\ (pc # "idle" /\ api = "Close" /\ lastTx' # lastTx)
           => (lastTx'.cmd = "CloseSession" /\ lastTx'.arg = id)
        /\ (pc # "idle" /\ api = "Close" /\ pc' = "idle")
           => /\ id' = 0
              /\ sequence' = Zero32
              /\ rqSeq' = 0
              /\ k1' = NilKey
              /\ k2' = NilKey
              /\ conn' = NoConn
              /\ socks' = socks \ {conn} ]_vars

\* a Close has returned an error and the session is still active on its socket
C3_Witness ==
    /\ api = "Close"
    /\ pc = "idle"
    /\ ret # NoErr
    /\ "CloseSession" \in sent
    /\ id > 0
    /\ conn \in socks

\* C4: whenever Open returns an error the socket has been closed and the
\* session is inactive, so that the next Open dials a new socket.
C4_FailedOpenLeavesClosed ==
    [][ /\ (api' = "Open" /\ pc' = "idle" /\ ret' # NoErr)
           => (conn' = NoConn /\ id' = 0 /\ socks' = {})
        /\ (pc = "idle" /\ api = "Open" /\ ret # NoErr /\ api' = "Open")
           => pc' = "dial" ]_vars

\* an Open has failed at the privilege elevation and left an active session
C4_Witness ==
    /\ api = "Open"
    /\ pc = "idle"
    /\ ret.type = "MessageError"
    /\ ret.cause # <<>>
    /\ id > 0
    /\ conn \in socks

\* C5: after a Close that returned nil, a later Open or Execute dials a new
\* socket, and the session that starts has sequence 0 and rqSeq 0 and the
\* managed id and keys of its own handshake.
C5_ReopenStartsFresh ==
    [][ /\ (pc = "idle" /\ api = "Close" /\ ret = NoErr /\ api' \in {"Open", "Execute"})
           => pc' = "dial"
        /\ (reopen /\ id = 0 /\ id' > 0)
           => /\ sequence' = Zero32
              /\ rqSeq' = 0
              /\ id' = hs.mid
              /\ k1' = GenerateK(1, hs.rm, hs.rc)
              /\ k2' = GenerateK(2, hs.rm, hs.rc) ]_vars

\* an Open that followed a successful Close has just made the session
\* active, with rqSeq not 0
C5_Witness ==
    /\ reopen
    /\ api = "Open"
    /\ lastTx.ptype = "RAKP3"
    /\ id > 0
    /\ sequence = Zero32
    /\ rqSeq > 0

\* C6: one retry() performs at most Retries + 1 attempts; an attempt is
\* followed by another only when it ended with a network timeout; any other
\* outcome ends the exchange at once; after Retries + 1 timeouts the
\* exchange ends and the timeout error is what is returned.
C6_RetryPolicy ==
    [][ /\ txn' <= args.Retries + 1
        /\ try' <= args.Retries
        /\ (pc \in Exchanges /\ try' = try + 1) => (pc' = pc /\ IsTimeout(last'))
        /\ (pc \in Exchanges /\ ~IsTimeout(last')) => try' = 0
        /\ (pc \in Exchanges /\ try = args.Retries) => try' = 0
        /\ (/\ pc = "dial" \/ (pc = "exec" /\ Top(Cur).fn = "Execute")
            /\ Len(stack) = 1
            /\ try = args.Retries
            /\ IsTimeout(last'))
           => (pc' = "idle" /\ ret' = last') ]_vars

\* an Execute has returned the timeout error after Retries + 1 transmissions
C6_Witness ==
    /\ api = "Execute"
    /\ pc = "idle"
    /\ ret = NetError(TRUE)
    /\ lastTx.cmd \in UserCommandNames
    /\ args.Retries > 0
    /\ txn = args.Retries + 1

\* C7: a response whose completion code is not 0 makes execute return a
\* CommandError with exactly that code and the command that was sent, and
\* the command's response fields stay as they were; the response fields are
\* filled only from a response with completion code 0.
C7_CompletionCodePropagation ==
    [][ /\ (/\ pc = "exec"
            /\ rsm' # <<>>
            /\ rsm' # <<CompletionOK>>
            /\ Top(Cur).fn = "Execute"
            /\ \A i \in 1..Len(stack) : stack[i].fn # "Open")
           => /\ pc' = "idle"
              /\ ret' = CommandError(rsm'[1], cmd.name)
              /\ ret'.cmd = lastTx'.cmd
              /\ res' = res
        /\ (pc' = "idle" /\ ret'.type = "CommandError")
           => (rsm' = <<ret'.cc>> /\ ret'.cc # CompletionOK /\ ~res'.set)
        /\ res'.set => (rsm' = <<CompletionOK>> /\ ret' = NoErr) ]_vars

\* an Execute has returned the CommandError of the code the peer answered
C7_Witness ==
    /\ api = "Execute"
    /\ pc = "idle"
    /\ id > 0
    /\ ret = CommandError(CompletionInsufficientPrivilege, "GetPOHCounter")
    /\ rsm = <<CompletionInsufficientPrivilege>>
    /\ ~res.set

\* C20: once the session is active, every packet the client sends carries the
\* managed id as session id, and every received packet whose session id is
\* not the console id makes the exchange fail with a MessageError, without
\* retry and with the command's response fields left alone.
C20_SessionIDsOnTheWire ==
    [][/\ (id > 0 /\ lastTx' # lastTx /\ lastTx'.ptype \notin {"none", "ASF"})
          => lastTx'.sid = id
       /\ id > 0
          => \A o \in Outcomes :
                (o.kind = "pkt" /\ o.sid # consoleID)
                => SendPacket(Cur, o) = MessageError("Mismatch console session ID")
       /\ (id > 0 /\ pc = "exec" /\ last' = MessageError("Mismatch console session ID"))
          => /\ res' = res
             /\ rsm' = <<>>
             /\ try' = 0]_vars

\* Execute on an active session has returned the MessageError of a response
\* with a foreign session id
C20_Witness ==
    /\ pc = "idle"
    /\ api = "Execute"
    /\ id > 0
    /\ lastTx.sid = id
    /\ lastTx.cmd \in UserCommandNames
    /\ last = MessageError("Mismatch console session ID")
    /\ ret = last
    /\ res = NoRes

\* C33: in every reachable state in which the session is inactive (managed
\* id 0) the session holds no K1 and no K2.
C33_NoKeysWhenInactive ==
    id = 0 => (k1 = NilKey /\ k2 = NilKey)

\* Open has returned nil on a client that holds the HMAC keys of the
\* handshake and whose managed id is 0
C33_Witness ==
    /\ api = "Open"
    /\ pc = "idle"
    /\ ret = NoErr
    /\ id = 0
    /\ conn # NoConn
    /\ k1.alg = "hmac"
    /\ k2.alg = "hmac"

\* C39: an active session (managed id non-zero) has an open socket in every
\* reachable state, and a step that clears the socket reference leaves the
\* session inactive.
C39_ActiveImpliesConnected ==
    /\ [](id > 0 => (conn # NoConn /\ conn \in socks))
    /\ [][(conn # NoConn /\ conn' = NoConn) => (id' = 0 /\ sequence' = Zero32)]_vars

\* a Close whose Close Session exchange failed has returned with the session
\* active on its socket
C39_Witness ==
    /\ api = "Close"
    /\ pc = "idle"
    /\ ret.type = "net"
    /\ id > 0
    /\ conn \in socks
    /\ lastTx.cmd = "CloseSession"

\* C40: when Open has returned nil and no other call has been made since,
\* the session is active (managed id non-zero).
C40_OpenedImpliesActive ==
    (api = "Open" /\ pc = "idle" /\ ret = NoErr) => id > 0

\* Open has returned nil after a complete handshake and the session is not
\* active
C40_Witness ==
    /\ api = "Open"
    /\ pc = "idle"
    /\ ret = NoErr
    /\ id = 0
    /\ conn \in socks
    /\ {"OpenSessionRequest", "RAKP1", "RAKP3"} \subseteq sent

\* C38: the response data Execute unmarshals into a command belongs to a
\* response the BMC produced for the request of that same Execute
\* invocation; a reply that arrives late is never decoded as the answer to
\* a different request.
C38_ResponseMatchesRequest ==
    msg.pc \in {"idle", "read"}
    => \A i \in 1..Len(msg.got) : msg.got[i].inv = msg.inv

\* Get POH Counter has returned nil with the data of the response to the
\* Get Device ID of an earlier Execute that had timed out
C38_Witness ==
    /\ msg.pc = "idle"
    /\ msg.err = NoErr
    /\ msg.cmd.name = "GetPOHCounter"
    /\ msg.got # <<>>
    /\ msg.got[1].name = "GetDeviceID"
    /\ msg.got[1].inv < msg.inv

----------------------------------------------------------------------------
(* Properties of the handshake; rx' is what the attempt of the step met *)

\* the step received a datagram that SendPacket accepted
Received(p) == last' = NoErr /\ rx'.kind = "pkt" /\ rx'.ptype = p

\* C21 as stated, for every cipher suite: a RAKP 2 whose KeyExchangeAuthCode
\* is not the expected HMAC makes Open fail with a MessageError, the session
\* id stays 0 and RAKP 3 is not sent.
C21_RAKP2RejectedAnySuite ==
    [][ (pc = "rakp1" /\ Received("RAKP2") /\ ~rx'.code)
        => /\ pc' = "idle"
           /\ ret'.type = "MessageError"
           /\ id' = 0
           /\ "RAKP3" \notin sent' ]_vars

\* C21: with a cipher suite that authenticates with RAKP-HMAC-SHA1 (1, 2, 3),
\* a RAKP 2 whose KeyExchangeAuthCode is not the expected HMAC makes Open
\* fail with a MessageError, the session id stays 0 and RAKP 3 is not sent.
C21_RAKP2Rejected ==
    [][ (pc = "rakp1" /\ Received("RAKP2") /\ ~rx'.code /\ args.CipherSuiteID \in 1..3)
        => /\ pc' = "idle"
           /\ ret' = MessageError("RAKP 2 HMAC is invalid")
           /\ id' = 0
           /\ k1' = NilKey
           /\ "RAKP3" \notin sent' ]_vars

\* an Open with suite 3 has failed on a RAKP 2 with a wrong auth code
C21_Witness ==
    /\ api = "Open"
    /\ pc = "idle"
    /\ args.CipherSuiteID = 3
    /\ rx.ptype = "RAKP2"
    /\ ~rx.code
    /\ ret = MessageError("RAKP 2 HMAC is invalid")
    /\ id = 0
    /\ "RAKP1" \in sent
    /\ "RAKP3" \notin sent

\* C22: during Open the first packet written after dialing is an RMCP/ASF
\* Ping, and Get Channel Authentication Capabilities is written only after a
\* Pong that reports IPMI support has been received.
C22_PingComesFirst ==
    [][ /\ (lastTx = NoTx /\ lastTx' # NoTx) => lastTx'.ptype = "ASF"
        /\ (lastTx' # lastTx /\ lastTx'.cmd = "GetChannelAuthCap") => "Ping" \in sent ]_vars

\* an Open has established a session without a Ping on the wire
C22_Witness ==
    /\ api = "Open"
    /\ pc = "idle"
    /\ ret = NoErr
    /\ id > 0
    /\ "GetChannelAuthCap" \in sent
    /\ "Ping" \notin sent

\* the retry() of the step goes on with another attempt
Retried == pc' = pc /\ try' = try + 1

\* the checks of the handshake responses that do not depend on the suite
OpenResValid ==
    /\ Received("OpenRes")
    /\ rx'.status = rakpStatusNoErrors
    /\ rx'.cid = consoleID
    /\ rx'.suite = args.CipherSuiteID

RakpValid(p) ==
    /\ Received(p)
    /\ rx'.status = rakpStatusNoErrors
    /\ rx'.cid = consoleID

\* the order of the handshake packets and the activation, given what makes
\* a RAKP 2 and a RAKP 4 valid
HandshakeOrdering(valid2, valid4) ==
    /\ (lastTx' # lastTx /\ lastTx'.ptype = "OpenReq")
       => (pc = "openreq" /\ sent \cap {"RAKP1", "RAKP3"} = {})
    /\ (lastTx' # lastTx /\ lastTx'.ptype = "RAKP1")
       => (pc = "rakp1" /\ "OpenSessionRequest" \in sent /\ "RAKP3" \notin sent)
    /\ (lastTx' # lastTx /\ lastTx'.ptype = "RAKP3")
       => (pc = "rakp3" /\ "RAKP1" \in sent)
    /\ (pc # "rakp1" /\ pc' = "rakp1") => (pc = "openreq" /\ OpenResValid)
    /\ (pc # "rakp3" /\ pc' = "rakp3") => (pc = "rakp1" /\ valid2)
    /\ (id = 0 /\ id' > 0)
       => /\ pc = "rakp3"
          /\ valid4
          /\ id' = hs.mid
          /\ k1' = GenerateK(1, hs.rm, hs.rc)
          /\ k2' = GenerateK(2, hs.rm, hs.rc)
    /\ (/\ \/ pc = "openreq" /\ ~OpenResValid
           \/ pc = "rakp1" /\ ~valid2
           \/ pc = "rakp3" /\ ~valid4
        /\ ~Retried)
       => (id' = 0 /\ k1' = NilKey /\ k2' = NilKey /\ pc' = "idle" /\ ret' # NoErr)

\* C23 as stated: Open Session Request, RAKP 1 and RAKP 3 are written in
\* that order, each after the response before it passed its validation
\* (status 0, console id, suite echoed; status 0, console id, HMAC valid);
\* the session becomes active only after RAKP 4 passed status, console id
\* and integrity check; a failed validation leaves the session inactive.
C23_HandshakeOrderingAnySuite ==
    [][ HandshakeOrdering(RakpValid("RAKP2") /\ rx'.code,
                          RakpValid("RAKP4") /\ rx'.code) ]_vars

\* C23: the same, the HMAC of RAKP 2 and the integrity check value of RAKP 4
\* being examined with the suites that authenticate (1, 2, 3).
C23_HandshakeOrdering ==
    [][ HandshakeOrdering(RakpValid("RAKP2") /\ (args.CipherSuiteID \in 1..3 => rx'.code),
                          RakpValid("RAKP4") /\ (args.CipherSuiteID \in 1..3 => rx'.code)) ]_vars

\* an Open with suite 2 has just made the session active on a valid RAKP 4
C23_Witness ==
    /\ api = "Open"
    /\ args.CipherSuiteID = 2
    /\ lastTx.ptype = "RAKP3"
    /\ rx.ptype = "RAKP4"
    /\ rx.code
    /\ id > 0
    /\ k1.alg = "hmac"
    /\ k2.alg = "hmac"
    /\ args.PrivilegeLevel = PrivilegeUser
    /\ pc = "idle"
    /\ ret = NoErr
    /\ sent = {"GetChannelAuthCap", "OpenSessionRequest", "RAKP1", "RAKP3"}

\* the execute() of the probe has returned an error in this step: its retry()
\* ended with an error, or the response was no IPMI response, carried a
\* completion code, or had fewer than 8 data bytes
ProbeFailed ==
    /\ ~Retried
    /\ \/ last' # NoErr
       \/ rx'.ptype # "IPMI"
       \/ rx'.cc # CompletionOK
       \/ rx'.dlen < 8

\* the execute() of the probe has returned nil in this step
ProbeAccepted ==
    /\ Received("IPMI")
    /\ rx'.cc = CompletionOK
    /\ rx'.dlen >= 8

\* C24: the first probe asks for channel 0x0E with the v2.0 bit; when it
\* fails the probe is executed once more without that bit, and when that one
\* fails Open returns its error; an accepted probe response without the RMCP+
\* bit makes Open fail with a MessageError; in both cases no Open Session
\* Request is written.
C24_ChannelProbe ==
    [][ /\ (lastTx' # lastTx /\ lastTx'.cmd = "GetChannelAuthCap")
           => /\ pc \in {"cac1", "cac2"}
              /\ lastTx'.arg = (IF pc = "cac1" THEN 128 + 14 ELSE 14)
        /\ (pc = "cac1" /\ ProbeFailed) => (pc' = "cac2" /\ try' = 0)
        /\ (pc # "cac2" /\ pc' = "cac2") => (pc = "cac1" /\ ProbeFailed)
        /\ pc = "cac2" => pc' \in {"cac2", "openreq", "idle"}
        /\ (pc = "cac2" /\ ProbeFailed)
           => /\ pc' = "idle"
              /\ last' # NoErr => ret' = last'
              /\ (last' = NoErr /\ rx'.ptype = "IPMI" /\ rx'.cc # CompletionOK)
                 => ret' = CommandError(rx'.cc, "GetChannelAuthCap")
              /\ ret' # NoErr
              /\ "OpenSessionRequest" \notin sent'
        /\ (pc \in {"cac1", "cac2"} /\ ProbeAccepted)
           => IF (rx'.val \div 128) % 2 = 1
              THEN pc' = "openreq"
              ELSE /\ pc' = "idle"
                   /\ ret' = MessageError("Not Support RMCP+")
                   /\ "OpenSessionRequest" \notin sent'
        /\ (pc # "openreq" /\ pc' = "openreq")
           => (pc \in {"cac1", "cac2"} /\ ProbeAccepted) ]_vars

\* an Open has failed because the second probe, the one without the v2.0
\* bit, was answered without the RMCP+ bit
C24_Witness ==
    /\ api = "Open"
    /\ pc = "idle"
    /\ ret = MessageError("Not Support RMCP+")
    /\ lastTx.cmd = "GetChannelAuthCap"
    /\ lastTx.arg = 14
    /\ rx.val = 4
    /\ sent = {"GetChannelAuthCap"}
    /\ id = 0

\* C25: in the step that makes the session active, Open goes on to execute
\* Set Session Privilege Level exactly when the configured privilege is above
\* USER, that command is written by nothing else, and when it fails Open
\* returns (after its deferred Close) a MessageError whose cause is the error
\* of the command.
C25_PrivilegeElevation ==
    [][ /\ (id = 0 /\ id' > 0)
           => IF args.PrivilegeLevel \in {PrivilegeOperator, PrivilegeAdministrator}
              THEN /\ pc' = "exec"
                   /\ cmd' = Cmd("SetSessionPrivilege", args.PrivilegeLevel)
                   /\ try' = 0
              ELSE /\ cmd'.name # "SetSessionPrivilege"
                   /\ api = "Open" => (pc' = "idle" /\ ret' = NoErr)
        /\ (lastTx' # lastTx /\ lastTx'.cmd = "SetSessionPrivilege")
           => /\ args.PrivilegeLevel \in {PrivilegeOperator, PrivilegeAdministrator}
              /\ lastTx'.arg = args.PrivilegeLevel
              /\ lastTx.ptype \in {"RAKP3", "IPMI"}
              /\ "RAKP3" \in sent
        /\ (/\ pc = "exec"
            /\ cmd.name = "SetSessionPrivilege"
            /\ ~Retried
            /\ \/ last' # NoErr
               \/ rx'.ptype # "IPMI"
               \/ rx'.cc # CompletionOK
               \/ rx'.dlen < 1)
           => /\ pc' # "idle" => \E i \in 1..Len(stack') : stack'[i].fn = "Open"
              /\ LET opens == { i \in 1..Len(stack') : stack'[i].fn = "Open" }
                     e == IF pc' = "idle" THEN ret' ELSE stack'[CHOOSE i \in opens : TRUE].err
                 IN /\ e.type = "MessageError"
                    /\ e.msg = "Unable to set session privilege level"
                    /\ Len(e.cause) = 1
                    /\ last' # NoErr => e.cause[1] = last'
                    /\ (last' = NoErr /\ rx'.ptype = "IPMI" /\ rx'.cc # CompletionOK)
                       => e.cause[1] = CommandError(rx'.cc, "SetSessionPrivilege")
        /\ \A i \in 1..Len(stack) :
              (stack[i].fn = "Open" /\ stack[i].err # NoErr /\ pc' = "idle")
              => ret' = stack[i].err ]_vars

\* an Open with privilege Operator has returned the MessageError whose cause
\* is the completion code Set Session Privilege Level was answered with
C25_Witness ==
    /\ api = "Open"
    /\ pc = "idle"
    /\ args.PrivilegeLevel = PrivilegeOperator
    /\ "SetSessionPrivilege" \in sent
    /\ ret = MessageErrorCause("Unable to set session privilege level",
                               CommandError(CompletionInsufficientPrivilege, "SetSessionPrivilege"))

\* C26: a packet written while the session is active is encrypted, with the
\* encrypted flag, exactly when the suite is 3, and carries the authenticated
\* flag and the integrity trailer exactly when the suite is 2 or 3; a packet
\* written while the session is inactive has neither.
C26_ProtectionFollowsSuite ==
    [][ (lastTx' # lastTx /\ lastTx' # NoTx)
        => /\ lastTx'.enc <=> (id > 0 /\ args.CipherSuiteID = 3)
           /\ lastTx'.auth <=> (id > 0 /\ args.CipherSuiteID \in {2, 3}) ]_vars

\* an Execute with suite 3 has written its command encrypted and with a
\* trailer, after a handshake written in the clear
C26_Witness ==
    /\ api = "Execute"
    /\ args.CipherSuiteID = 3
    /\ id > 0
    /\ "RAKP3" \in sent
    /\ lastTx.cmd \in UserCommandNames
    /\ lastTx.sid = id
    /\ lastTx.enc
    /\ lastTx.auth

\* C28: in an active session a response with the console id is rejected
\* with a MessageError when the suite has integrity (2, 3) and the response
\* lacks the authenticated flag or its trailer is not the HMAC under K1, and
\* when the suite has confidentiality (3) and the response lacks the
\* encrypted flag; the trailer is verified before the payload is decrypted;
\* a rejected packet is not retried and fills no response field.
C28_ReceiveVerification ==
    [][ (pc = "exec" /\ id > 0 /\ rx'.kind = "pkt" /\ rx'.sid = consoleID)
        => /\ (args.CipherSuiteID \in {2, 3} /\ rx'.auth = "none")
              => last' = MessageError("Response message is not authenticated")
           /\ (args.CipherSuiteID \in {2, 3} /\ rx'.auth = "bad")
              => last' = MessageError("Received message with invalid authcode")
           /\ (args.CipherSuiteID = 3 /\ rx'.auth = "ok" /\ rx'.enc = "none")
              => last' = MessageError("Response message is not encrypted")
           /\ last'.type = "MessageError"
              => /\ res' = res
                 /\ rsm' = <<>>
                 /\ ~Retried
           /\ res' # res
              => /\ last' = NoErr
                 /\ args.CipherSuiteID \in {2, 3} => rx'.auth = "ok"
                 /\ args.CipherSuiteID = 3 => rx'.enc = "ok" ]_vars

\* an Execute with suite 3 has returned the error of the trailer of a
\* response whose payload could not have been decrypted either
C28_Witness ==
    /\ api = "Execute"
    /\ pc = "idle"
    /\ id > 0
    /\ args.CipherSuiteID = 3
    /\ lastTx.cmd \in UserCommandNames
    /\ rx.sid = consoleID
    /\ rx.auth = "bad"
    /\ rx.enc = "bad"
    /\ ret = MessageError("Received message with invalid authcode")
    /\ res = NoRes

\* C34: the named completion codes are exactly 0x00, 0xFF and the standard
\* errors 0xC0 through 0xD6, Node Busy being 0xC0 and Reservation Cancelled
\* 0xC5; every other value is rendered as "0xNN".
C34_CompletionCodeNumbering ==
    msg.pc = "rendered"
    => /\ msg.s = "Command Completed Normally" <=> msg.c = 0
       /\ msg.s = "Unspecified error" <=> msg.c = 255
       /\ msg.s = "Node Busy" <=> msg.c = 192
       /\ msg.s = "Reservation Canceled or Invalid Reservation ID" <=> msg.c = 197
       /\ msg.s = "Command sub-function has been disabled or is unavailable" <=> msg.c = 214
       /\ msg.s = Hex02(msg.c) <=> msg.c \notin ({0, 255} \cup 192..214)

\* 0xC0 has been rendered as a number
C34_Witness ==
    /\ msg.pc = "rendered"
    /\ msg.c = 192
    /\ msg.s = "0xc0"

----------------------------------------------------------------------------
(* Properties of NewClient *)

\* C8: NewClient returns an ArgumentError and no client for a password of
\* more than 20 bytes, a cipher suite id above 3, a user name of more than
\* 16 bytes, a privilege level above Administrator, and for IPMI v1.5.
C8_NewClientRejects ==
    (/\ newPc = "done"
     /\ \/ Len(arguments.Password) > 20
        \/ arguments.CipherSuiteID > 3
        \/ Len(arguments.Username) > 16
        \/ arguments.PrivilegeLevel > PrivilegeAdministrator
        \/ arguments.Version = V1_5)
    => (newErr.type = "ArgumentError" /\ client = <<>>)

\* NewClient has rejected cipher suite 4 of an otherwise valid v2.0 request
C8_Witness ==
    /\ newPc = "done"
    /\ arguments.Version = V2_0
    /\ arguments.CipherSuiteID = 4
    /\ Len(arguments.Password) = 20
    /\ Len(arguments.Username) = 16
    /\ arguments.PrivilegeLevel = PrivilegeAdministrator
    /\ newErr = ArgumentError("Unsupported Cipher Suite ID in ipmigo")
    /\ client = <<>>

\* C9: NewClient with Version, Network, Timeout, Retries, PrivilegeLevel and
\* CipherSuiteID all zero succeeds, and the client has IPMI v2.0, "udp",
\* 5 seconds, 0 retries, Administrator and cipher suite 0.
C9_DefaultsApplied ==
    (/\ newPc = "done"
     /\ arguments.Version = 0
     /\ arguments.Network = ""
     /\ arguments.Timeout = 0
     /\ arguments.Retries = 0
     /\ arguments.PrivilegeLevel = 0
     /\ arguments.CipherSuiteID = 0
     /\ Len(arguments.Username) <= 16
     /\ Len(arguments.Password) <= 20)
    => /\ newErr = NoErr
       /\ client = << [arguments EXCEPT !.Version = V2_0, !.Network = "udp", !.Timeout = 5,
                                        !.PrivilegeLevel = PrivilegeAdministrator] >>

\* NewClient has rejected the zero Arguments
C9_Witness ==
    /\ newPc = "done"
    /\ arguments.Version = 0
    /\ arguments.Network = ""
    /\ arguments.Timeout = 0
    /\ arguments.Retries = 0
    /\ arguments.PrivilegeLevel = 0
    /\ arguments.CipherSuiteID = 0
    /\ Len(arguments.Username) = 0
    /\ Len(arguments.Password) = 0
    /\ newErr = ArgumentError("Unsupported IPMI version")
    /\ client = <<>>

----------------------------------------------------------------------------
(* Properties of the SDR enumeration *)

RECURSIVE FilteredFrom(_)
\* the records from record i on that the filter accepts, as SDRGetRecordsRepo
\* returns them
FilteredFrom(i) ==
    IF i > Len(repo) THEN <<>>
    ELSE IF filter.nil \/ repo[i].type \in filter.types
    THEN <<[id |-> i, type |-> repo[i].type, data |-> RecordBody(i)]>> \o FilteredFrom(i + 1)
    ELSE FilteredFrom(i + 1)

\* C10: when the BMC answers exactly one Get SDR, the N-th, with Reservation
\* Cancelled, the enumeration takes a new reservation and returns the
\* complete list: every record the filter accepts exactly once, in order.
C10_RestartYieldsCompleteList ==
    (/\ spc = "done"
     /\ faultCode = CompletionReservationCancelled
     /\ faultAt \in 1..getSDRs)
    => /\ serr = NoErr
       /\ bmcReservation = 2
       /\ lastReq.ReservationID = 2
       /\ sensors = FilteredFrom(1)

\* an enumeration that restarted has returned a record twice
C10_Witness ==
    /\ spc = "done"
    /\ serr = NoErr
    /\ faultCode = CompletionReservationCancelled
    /\ faultAt \in 1..getSDRs
    /\ bmcReservation = 2
    /\ Len(sensors) > Len(FilteredFrom(1))
    /\ sensors[1] = sensors[2]

\* C11: a Get SDR answered with completion code 0xC5, Reservation Cancelled,
\* is not returned to the caller as an error: the enumeration reserves the
\* repository again, restarts at record id 0x0000, and its later Get SDR
\* requests carry the new reservation id.
C11_CancelledIsNotAnError ==
    [][(/\ spc \in {"header", "record"}
        /\ getSDRs' = getSDRs + 1
        /\ lastCc' = 197)
       => (/\ spc' = "reserve"
           /\ serr' = NoErr
           /\ sensors' = <<>>)]_vars

\* the enumeration has returned the CommandError of a Get SDR answered 0xC5
C11_Witness ==
    /\ spc = "done"
    /\ faultCode = 197
    /\ faultAt = getSDRs
    /\ lastCc = 197
    /\ serr = CommandError(197, "Get SDR")
    /\ sensors = <<>>

\* C12: sdrReadingBytes starts at 32 and only takes the values 32, 24, 16,
\* 8, 5; a body Get SDR answered Request data field exceeded lowers it by 8,
\* not below 5, and the same record id and offset are requested again with
\* the size capped by the lowered value; it never increases, and a body read
\* of a size within the BMC's limit succeeds.
C12_ChunkBackoff ==
    [][/\ sdrReadingBytes' <= sdrReadingBytes
       /\ sdrReadingBytes' \in {32, 24, 16, 8, 5}
       /\ (spc = "record" /\ getSDRs' = getSDRs + 1
           /\ lastCc' = CompletionRequestDataFieldExceedEd)
          => /\ sdrReadingBytes' = (IF sdrReadingBytes - 8 < 5 THEN 5 ELSE sdrReadingBytes - 8)
             /\ sdrReadingBytes > 5 => (spc' = "record" /\ n' = n /\ header' = header)
       /\ (spc = "record" /\ getSDRs' = getSDRs + 1
           /\ lastCc = CompletionRequestDataFieldExceedEd)
          => /\ lastReq'.RecordID = lastReq.RecordID
             /\ lastReq'.RecordOffset = lastReq.RecordOffset
             /\ lastReq'.ReadBytes = Min(lastReq.ReadBytes, sdrReadingBytes)
       /\ (spc = "record" /\ getSDRs' = getSDRs + 1 /\ getSDRs + 1 # faultAt
           /\ lastReq'.ReadBytes <= bmcMaxRead)
          => lastCc' = CompletionOK]_vars

\* a record read that went 32, 24, 16, 8, 5 and then succeeded
C12_Witness ==
    /\ spc = "done"
    /\ serr = NoErr
    /\ faultAt = 0
    /\ bmcMaxRead = sdrHeaderSize
    /\ sdrReadingBytes = 5
    /\ Len(sensors) = 1
    /\ sensors[1].type = SDRTypeFullSensor
    /\ Len(sensors[1].data) = sdrFullSensorSize
    /\ getSDRs = 1 + 4 + 9

\* C13: a Get SDR answered Request data field exceeded, header read or body
\* read, is never returned to the caller as an error: the enumeration goes on.
C13_FieldExceededIsNotAnError ==
    [][(/\ spc \in {"header", "record"}
        /\ getSDRs' = getSDRs + 1
        /\ lastCc' = CompletionRequestDataFieldExceedEd)
       => (spc' # "done" /\ serr' = NoErr)]_vars

\* the enumeration has returned the CommandError of a header read answered
\* Request data field exceeded
C13_Witness ==
    /\ spc = "done"
    /\ lastReq.RecordOffset = 0
    /\ lastReq.ReadBytes = sdrHeaderSize
    /\ lastCc = CompletionRequestDataFieldExceedEd
    /\ serr = CommandError(CompletionRequestDataFieldExceedEd, "Get SDR")
    /\ sensors = <<>>

C36_EnumerationTerminates ==
    /\ <>(spc = "done")
    /\ [](spc \in {"call", "info", "reserve", "header", "record", "done"})
    /\ []((spc = "done" /\ serr = NoErr) => recordID = sdrLastID)
    /\ [](spc = "record" => (header # NoHeader /\ n < header[1].RemainingBytes))
    /\ [][ /\ (spc = "reserve" /\ spc' = "header")
              => (recordID' = sdrFirstID /\ header' = NoHeader)
           /\ (spc = "header" /\ lastReq' # lastReq)
              => (lastReq'.RecordID = recordID /\ lastReq'.RecordOffset = 0)
           /\ (spc \in {"header", "record"} /\ spc' \in {"header", "done"}
               /\ serr' = NoErr /\ lastCc' = CompletionOK)
              => (recordID' = nextID' /\ header' = NoHeader)
           /\ (spc = "record" /\ lastCc' = CompletionOK)
              => /\ n' > n
                 /\ n' <= header[1].RemainingBytes
                 /\ n' = n + Min(Min(header[1].RemainingBytes - n, sdrReadingBytes),
                                 bmcMaxData)
                 /\ spc' = "record" <=> n' < header[1].RemainingBytes
                 /\ (spc' # "record" /\ serr' = NoErr)
                    => Len(sensors'[Len(sensors')].data) = header[1].RemainingBytes
         ]_vars

\* an enumeration of two records, the body of the second read in chunks of
\* 7 bytes, has returned both
C36_Witness ==
    /\ spc = "done"
    /\ serr = NoErr
    /\ Len(repo) = 2
    /\ faultAt = 0
    /\ bmcMaxData = 7
    /\ Len(sensors) = 2
    /\ recordID = sdrLastID
    /\ n > 7
    /\ n = repo[2].len

----------------------------------------------------------------------------
(* Properties of the SEL retrieval *)

\* C15: when the log has no entries, or num <= 0, or offset is negative or
\* not below the total, SELGetEntries returns no records, the BMC's entry
\* count and no error, and the only command it issued is Get SEL Info.
C15_EmptyWindow ==
    (/\ sel.pc = "done"
     /\ sel.faultAt # 1
     /\ sel.version \in {81, 2}
     /\ \/ sel.entries = 0
        \/ sel.numArg <= 0
        \/ sel.offset < 0
        \/ sel.offset >= sel.entries)
    => /\ sel.records = <<>>
       /\ sel.total = sel.entries
       /\ sel.err = NoErr
       /\ sel.cmds = <<SelRequest("Get SEL Info", 0, 0)>>

\* SELGetEntries has returned for an offset equal to the total of 3
C15_Witness ==
    /\ sel.pc = "done"
    /\ sel.entries = 3
    /\ sel.offset = 3
    /\ sel.numArg = 2
    /\ sel.faultAt = 0
    /\ sel.version = 81
    /\ sel.records = <<>>
    /\ sel.total = 3
    /\ sel.err = NoErr
    /\ Len(sel.cmds) = 1

\* C16: for 0 <= offset < total and num > 0, on a log with linearly spaced
\* record ids, SELGetEntries returns the total and exactly the
\* min(num, total - offset) records at positions offset, offset + 1, ...;
\* it never holds more records than that, and it sends no Get SEL Entry after
\* the BMC reported next record id 0xFFFF.
C16_Window ==
    (/\ sel.pc # "parked"
     /\ sel.numArg > 0
     /\ sel.offset >= 0
     /\ sel.offset < sel.entries)
    => LET w == Min(sel.numArg, sel.entries - sel.offset)
       IN /\ Len(sel.records) <= w
          /\ \A k \in 1..Len(sel.records) :
                sel.records[k] = SelRecordID(sel, sel.offset + k - 1)
          /\ (sel.pc = "walk") => sel.id # selLastID
          /\ (sel.pc = "done" /\ sel.faultAt \notin 1..Len(sel.cmds) /\ sel.version \in {81, 2})
             => /\ Len(sel.records) = w
                /\ sel.total = sel.entries
                /\ sel.err = NoErr

\* SELGetEntries(offset 1, num 3) on a log of 3 has returned the last two
C16_Witness ==
    /\ sel.pc = "done"
    /\ sel.entries = 3
    /\ sel.first = 5
    /\ sel.delta = 3
    /\ sel.offset = 1
    /\ sel.numArg = 3
    /\ sel.faultAt = 0
    /\ sel.records = <<8, 11>>
    /\ sel.total = 3
    /\ sel.err = NoErr
    /\ Len(sel.cmds) = 5

\* C17: whenever a command SELGetEntries issues fails (Get SEL Info, the
\* fetch of the first record, Reserve SEL, a Get SEL Entry of the walk),
\* SELGetEntries returns a non-nil error.
C17_ErrorsSurface ==
    (sel.pc = "done" /\ sel.faultAt \in 1..Len(sel.cmds)) => sel.err # NoErr

\* SELGetEntries has returned nil although the fetch of the first record
\* failed
C17_Witness ==
    /\ sel.pc = "done"
    /\ sel.faultAt = 2
    /\ Len(sel.cmds) = 2
    /\ sel.cmds[2] = SelRequest("Get SEL Entry", 0, selFirstID)
    /\ sel.offset > 0
    /\ sel.err = NoErr
    /\ sel.records = <<>>
    /\ sel.total = sel.entries

----------------------------------------------------------------------------
(* Properties of the session counters *)

\* C18 as stated: in every state in which the session is active (managed id
\* non-zero) the session sequence counter is non-zero.
C18_ActiveSequenceNonZero ==
    id > 0 => sequence # Zero32

\* C18 amended: every packet built in an active session carries a non-zero
\* sequence number, which is the counter's value from then on (the counter
\* is 0 only between activation and the first packet); incrementing it from
\* 0xFFFFFFFF yields 1, never 0.
C18_ActivePacketSequenceNonZero ==
    [][(pc = "seq" /\ txn' = txn + 1 /\ id > 0)
       => /\ sequence' # Zero32
          /\ lastTx'.seq = sequence'
          /\ lastTx'.seq # sequence
          /\ sequence = MaxUint32 => sequence' = Uint32(0, 1)
          /\ sequence = Uint32(0, 65535) => sequence' = Uint32(1, 0)]_vars

\* an active session whose counter has wrapped from 0xFFFFFFFF to 1 and gone
\* on to 2
C18_Witness ==
    /\ pc = "seq"
    /\ id > 0
    /\ txn = 3
    /\ sequence = Uint32(0, 2)
    /\ lastTx.seq = Uint32(0, 2)

\* C30: NextSequence in an active session returns the counter incremented by
\* one and leaves that value in the counter, except that from 0xFFFFFFFF it
\* returns 1; in an inactive session it returns 0 and leaves the counter as
\* it was.
C30_NextSequence ==
    [][(pc = "seq" /\ txn' = txn + 1)
       => IF id > 0
          THEN /\ lastTx'.seq = sequence'
               /\ sequence = MaxUint32 => sequence' = Uint32(0, 1)
               /\ sequence[2] < 65535 => sequence' = Uint32(sequence[1], sequence[2] + 1)
               /\ (sequence[2] = 65535 /\ sequence[1] < 65535)
                  => sequence' = Uint32(sequence[1] + 1, 0)
          ELSE /\ lastTx'.seq = Zero32
               /\ sequence' = sequence]_vars

\* a session that built one request before it was activated and one after:
\* the first left the counter at 0, the second carries 1
C30_Witness ==
    /\ pc = "seq"
    /\ id > 0
    /\ txn = 2
    /\ rqSeq = 2
    /\ sequence = Uint32(0, 1)
    /\ lastTx.seq = Uint32(0, 1)

\* the number after x in a session: x + 1, and 1 after 0xFFFFFFFF
Succ32(x) == IF x = MaxUint32 THEN Uint32(0, 1) ELSE Inc32(x)

Less32(x, y) == x[1] < y[1] \/ (x[1] = y[1] /\ x[2] < y[2])

\* C37 as stated: in an active session every packet written to the socket
\* carries a sequence number exactly one greater than the packet written
\* before it (1 after 0xFFFFFFFF), and the first one written after
\* activation carries 1.
C37_FreshPerTransmission ==
    [][(id > 0 /\ msg'.written = msg.written + 1)
       => msg'.seq = (IF msg.written = 0 THEN Uint32(0, 1) ELSE Succ32(msg.seq))]_vars

\* C37 amended: in an active session every attempt builds its packet with a
\* sequence number exactly one greater than that of the attempt before it
\* (1 after 0xFFFFFFFF, and 1 for the first attempt after activation); the
\* numbers written to the socket never repeat or decrease except at the
\* wrap, and one is skipped only for an attempt whose packet was not written.
C37_FreshPerAttempt ==
    [][(pc = "seq" /\ id > 0 /\ txn' = txn + 1)
       => /\ lastTx'.seq = Succ32(sequence)
          /\ sequence' = lastTx'.seq
          /\ (lastTx # NoTx /\ lastTx.sid = id) => lastTx'.seq = Succ32(lastTx.seq)
          /\ msg'.written = msg.written + 1
             => /\ msg'.seq = lastTx'.seq
                /\ msg.written > 0
                   => \/ Less32(msg.seq, msg'.seq)
                      \/ (msg.seq[1] = 65535 /\ msg'.seq[1] = 0)
          /\ msg'.written = msg.written => msg' = msg]_vars

\* the first packet of an active session could not be written; the second
\* attempt was, and the wire carries 2 as its first number
C37_Witness ==
    /\ id > 0
    /\ txn = 2
    /\ sequence = Uint32(0, 2)
    /\ msg = Wired(1, Uint32(0, 2))

\* C19: rqSeq always lies in 0..63; each request carries rqSeq << 2 and then
\* rqSeq becomes (rqSeq + 1) mod 64, so the 65 requests built from rqSeq 0
\* carry 0 << 2, 1 << 2, ..., 63 << 2, 0 << 2.
C19_RqSeqRollover ==
    [][(pc = "seq" /\ txn' = txn + 1)
       => /\ rqSeq \in 0..63
          /\ rqSeq' \in 0..63
          /\ lastTx'.rq = rqSeq * 4
          /\ rqSeq' = (rqSeq + 1) % 64
          /\ lastTx'.rq = (txn % 64) * 4]_vars

\* the 65th request has been built and carries 0 << 2 again
C19_Witness ==
    /\ pc = "seq"
    /\ txn = 65
    /\ lastTx.rq = 0
    /\ rqSeq = 1

----------------------------------------------------------------------------
(* Properties of one message *)

\* the length of the payload of the message on the wire: the marshalled
\* request, or with suite 3 in an active session an IV of 16 bytes and the
\* request padded by at least one byte to whole blocks of 16
WirePayloadLength ==
    IF msg.active /\ msg.suite = 3
    THEN 16 + 16 * ((Len(msg.wire.plain) + 16) \div 16)
    ELSE Len(msg.wire.plain)

\* C27 as stated: in an active session with an integrity suite the payload
\* length of the session header is the length of the payload plus the length
\* of the trailer.
C27_LengthIncludesTrailer ==
    (msg.pc \in {"sent", "done"} /\ msg.active /\ msg.suite \in {2, 3})
    => /\ msg.wire.trailer > 0
       /\ msg.wire.payloadLength = WirePayloadLength + msg.wire.trailer

\* C27: in an active session with an integrity suite the payload length of
\* the session header is the length of the (possibly encrypted) payload; the
\* trailer of 14 to 17 bytes, which pads header and payload to a multiple of
\* 4, follows the payload and is not counted.
C27_LengthExcludesTrailer ==
    (msg.pc \in {"sent", "done"} /\ msg.active /\ msg.suite \in {2, 3})
    => /\ msg.wire.authenticated
       /\ msg.wire.payloadLength = WirePayloadLength
       /\ msg.wire.payloadBytes = WirePayloadLength + msg.wire.trailer
       /\ msg.wire.trailer \in 14..17
       /\ (sessionHeaderV2_0Size + WirePayloadLength + msg.wire.trailer) % 4 = 0

\* a request of 8 bytes has gone out with suite 3: 32 bytes of payload
\* announced, followed by a trailer of 16
C27_Witness ==
    /\ msg.pc = "sent"
    /\ msg.active
    /\ msg.suite = 3
    /\ Len(msg.wire.plain) = 8
    /\ msg.wire.payloadLength = 32
    /\ msg.wire.trailer = 16
    /\ msg.wire.payloadBytes = 48


\* the header checksum of b and the two bytes it covers sum to 0 mod 256
HeaderSumZero(b) == (b[1] + b[2] + b[3]) % 256 = 0

\* the body checksum of b and the bytes it covers sum to 0 mod 256
BodySumZero(b) == Sum(SubSeq(b, 4, Len(b))) = 0

\* C29: both checksums of a response are verified: a response whose header
\* checksum (over its first two bytes) or body checksum (from the fourth
\* byte through the last data byte) is wrong fails the exchange with a
\* MessageError, is not retried and fills no response field; and the request
\* the client marshals carries two checksums that sum with the bytes they
\* cover to 0 mod 256.
C29_ChecksumsVerified ==
    /\ msg.pc \in {"sent", "done"}
       => /\ Len(msg.wire.plain) = 7 + Len(msg.req.Command.data)
          /\ HeaderSumZero(msg.wire.plain)
          /\ BodySumZero(msg.wire.plain)
    /\ (msg.pc = "done" /\ Len(msg.resp) >= 3
        /\ ~(HeaderSumZero(msg.resp) /\ BodySumZero(msg.resp)))
       => /\ msg.err.type = "MessageError"
          /\ ~msg.again
          /\ msg.rsm = <<>>
          /\ msg.fields = <<>>

\* a full-size response whose body checksum alone is wrong was refused by a
\* client that has retries left
C29_Witness ==
    /\ msg.pc = "done"
    /\ msg.retries > 0
    /\ Len(msg.resp) >= ipmiResponseMessageMinSize + msg.req.Command.min
    /\ HeaderSumZero(msg.resp)
    /\ ~BodySumZero(msg.resp)
    /\ msg.resp[7] = CompletionOK
    /\ msg.err = MessageError("Invalid IPMI response 2nd checksum")
    /\ ~msg.again
    /\ msg.fields = <<>>


----------------------------------------------------------------------------
(* Properties of the payload protection *)

\* what CBC decryption of the encrypted bytes gives before the pad is removed
DecryptedInput ==
    cbcDecrypt(msg.key, SubSeq(msg.out, 1, 16), SubSeq(msg.out, 17, Len(msg.out)))

\* C31: for every plaintext length encryptPayload appends the pad bytes
\* 1, 2, ..., pad_len and then the byte pad_len, pad_len being the smallest
\* non-negative value with (len + 1 + pad_len) % 16 = 0, so that the output
\* is the 16 bytes of the IV and a multiple of 16 bytes; decryptPayload of
\* the output under the same key returns the original bytes.
C31_PaddingRoundTrip ==
    /\ msg.pc \in {"encrypted", "decrypted"}
       => LET len == Len(msg.source)
              padLen == Len(msg.out) - 16 - len - 1
          IN /\ Len(msg.out) >= 32
             /\ (Len(msg.out) - 16) % 16 = 0
             /\ padLen \in 0..15
             /\ (len + 1 + padLen) % 16 = 0
             /\ Len(DecryptedInput) = len + padLen + 1
             /\ SubSeq(DecryptedInput, 1, len) = msg.source
             /\ \A i \in 1..padLen : DecryptedInput[len + i] = i
             /\ DecryptedInput[len + padLen + 1] = padLen
    /\ msg.pc = "decrypted"
       => msg.back = Outcome("ok", msg.source, NoErr)

\* 16 bytes were encrypted with a pad of 15 bytes into 48 and decrypted back
C31_Witness ==
    /\ msg.pc = "decrypted"
    /\ Len(msg.source) = 16
    /\ Len(msg.out) = 48
    /\ DecryptedInput[32] = 15
    /\ DecryptedInput[17] = 1
    /\ msg.back.kind = "ok"
    /\ msg.back.bytes = msg.source

\* C32: makeTrailer emits p bytes 0xFF, the byte p, the byte 0x07 and an
\* auth code of 12 bytes, p being the smallest non-negative number with
\* (len + p + 2 + 12) % 4 = 0; validateTrailer accepts the source followed
\* by its trailer under the same key and rejects it when the key, a source
\* byte or a trailer byte differs.
C32_TrailerShape ==
    /\ msg.pc \in {"signed", "verified"}
       => LET len == Len(msg.source)
              p == Len(msg.out) - len - 14
          IN /\ p \in 0..3
             /\ (len + p + 2 + 12) % 4 = 0
             /\ SubSeq(msg.out, 1, len) = msg.source
             /\ \A i \in 1..p : msg.out[len + i] = 255
             /\ msg.out[len + p + 1] = p
             /\ msg.out[len + p + 2] = 7
    /\ msg.pc = "verified"
       => /\ msg.verr = NoErr <=> (msg.at = 0 /\ msg.vkey = msg.key)
          /\ msg.verr # NoErr
             => msg.verr = MessageError("Received message with invalid authcode")

\* a trailer with three pad bytes was refused after one of its pad bytes
\* had been changed
C32_Witness ==
    /\ msg.pc = "verified"
    /\ Len(msg.source) = 31
    /\ Len(msg.out) = 31 + 3 + 2 + 12
    /\ msg.at = 32
    /\ msg.vkey = msg.key
    /\ msg.verr = MessageError("Received message with invalid authcode")

\* C35: a received datagram that is cut short or whose lengths disagree (no
\* byte after the RMCP header of an IPMI-class packet, fewer payload bytes
\* than the session header declares, an encrypted payload of the IV only, a
\* decrypted pad length beyond the decrypted data) ends the exchange with a
\* MessageError returned to the caller and never aborts the program.
C35_TruncatedIsMessageError ==
    /\ msg.pc \in {"message", "returned", "aborted"}
    /\ msg.shape \in {"truncated", "overdeclared", "ivonly", "badpad"}
    => /\ msg.pc # "aborted"
       /\ msg.pc = "returned"
          => /\ msg.result.kind = "error"
             /\ msg.result.err.type = "MessageError"

\* the four bytes of an RMCP header of class IPMI were read and
\* unmarshalMessage ended in a run-time panic
C35_Witness ==
    /\ msg.pc = "aborted"
    /\ msg.shape = "truncated"
    /\ msg.datagram = <<6, 0, 255, rmcpClassIPMI>>
    /\ msg.message.kind = "panic"
    /\ msg.result.kind = "panic"

====
